---- MODULE Spec2Model ----
(***************************************************************************)
(* Delta-neutral controller (yalishendaa/DN): the safety gate, the         *)
(* risk/decision engine, the continuous rebalancing controller with its    *)
(* state collection and configuration loading, the adapters' order         *)
(* placement and the hedged entry/exit protocol, modelled from the Python  *)
(* sources.                                                                *)
(*                                                                         *)
(* Numbers.  The code works on floats; the model works on exact integers:  *)
(* sizes are counted in lots, prices and balances in cents.  The input     *)
(* domains are chosen so that every division the code performs is exact    *)
(* on them (reference prices are multiples of 400 cents, offsets whole     *)
(* basis points), so \div below is the code's "/" on these inputs.         *)
(***************************************************************************)
EXTENDS Integers, Sequences, FiniteSets, TLC

VARIABLES
    environ,        \* os.environ.get("CONFIRM_LIVE_TRADING"): Unset or a string
    gateLive,       \* live_flag of the latest require_live_confirmation call
    gateResult,     \* outcome of the latest call: "none" | "true" | "false" | "raise"
    gateEnv,        \* the environment value the latest call started from
    engCfg,         \* DeltaEngine._config (with _risk = config.risk)
    snapshot,       \* DeltaSnapshot handed to the latest analyze call
    decision,       \* DeltaDecision returned by the latest analyze call
    firstSnapshot,  \* snapshot of the first analyze call made on this engine
    firstDecision,  \* decision the first analyze call returned
    engCalls,       \* number of analyze calls made on this engine
    argLive,        \* args.live of the running command (--live)
    ctlPc,          \* where python -m controller stands
    ctlExit,        \* its exit code, -1 while it runs
    ctlRunning,     \* DeltaNeutralController._running
    ctlStopAsked,   \* stop() was called (SIGINT/SIGTERM handler)
    ctlCycle,       \* DeltaNeutralController._cycle_count
    ctlInst,        \* index of the instrument the cycle is at
    ctlPending,     \* actions of the current decision not yet executed
    ctlPlaced,      \* number of place_limit_order calls made by the controller
    entryCfg,       \* enter_delta_neutral: the entry section and the chosen action
    entryPc,        \* where enter_delta_neutral.main stands
    entryExit,      \* how it left the chunk loop, "" while it runs
    shutdown_event, \* shutdown_event.is_set()
    venue,          \* positions and resting primary order as the two venues hold them
    chunk,          \* the locals of the current iteration of the chunk loop
    total_filled,   \* total_filled
    entryPlaced,    \* an order placement call was made on either venue
    entryChunks,    \* iterations of the chunk loop started so far
    order,          \* the adapter and the arguments of a place_limit_order call
    placed,         \* how that call ended: NotCalled, a PlacedOrderResult or an exception
    reads,          \* outcomes of the four adapter reads of a cycle, per venue
    collected,      \* the two ExchangeState objects _collect_state returned, or NotCollected
    ctlAdapters,    \* DeltaNeutralController._adapters: the initialized adapters, in order
    ctlCloseLog,    \* the close() calls made on adapters so far and whether each raised
    rawConfig,      \* the parsed config.yaml and which env files exist on disk
    loaded,         \* what load_config did: NotLoaded, the ControllerConfig or the exception
    offsetCfg,      \* the offsets and post-only fallback settings of the entry section
    offsets,        \* the offsets loop of one chunk: its queue, its counters and the attempts made
    waitCfg,        \* the arguments of one wait_fill call
    wait,           \* the locals of that wait_fill call and what its latest iteration did
    hedgeCfg,       \* the slippage and hedge-retry settings of the entry section
    hedge,          \* the hedge phase of one chunk: its locals and the taker orders placed
    closeIn,        \* what the close sizing of one pass reads: size, positions, prices, close_min_notional
    closeOut,       \* what that sizing decided
    ioCfg,          \* one venue read of the core: where it is made, max_retries, and how the venue answers
    io,             \* that read as the code makes it: the attempts made and how the read ended
    book,           \* wait_fill against the order book of the primary venue: its locals, the live orders and the true position
    closeRun,       \* a close-mode run over venues that answer every call: positions, resting order and the locals of the pass
    objects         \* the objects that analyze calls and their callers hold

gateVars == <<environ, gateLive, gateResult, gateEnv>>
engVars == <<engCfg, snapshot, decision, firstSnapshot, firstDecision, engCalls>>
ctlVars == <<argLive, ctlPc, ctlExit, ctlRunning, ctlStopAsked, ctlCycle, ctlInst,
             ctlPending, ctlPlaced>>
entryVars == <<entryCfg, entryPc, entryExit, shutdown_event, venue, chunk, total_filled,
               entryPlaced, entryChunks>>
adapterVars == <<order, placed>>
collectVars == <<reads, collected>>
ctlCloseVars == <<ctlAdapters, ctlCloseLog>>
configVars == <<rawConfig, loaded>>
offsetVars == <<offsetCfg, offsets>>
waitVars == <<waitCfg, wait>>
hedgeVars == <<hedgeCfg, hedge>>
closeVars == <<closeIn, closeOut>>
ioVars == <<ioCfg, io>>
bookVars == <<book>>
closeRunVars == <<closeRun>>
objectVars == <<objects>>
vars == <<gateVars, engVars, ctlVars, entryVars, adapterVars, collectVars, ctlCloseVars, configVars, offsetVars, waitVars, hedgeVars, closeVars, ioVars, bookVars, closeRunVars, objectVars>>

\* what the actions of one component leave alone
notGate == <<engVars, ctlVars, entryVars, adapterVars, collectVars, ctlCloseVars, configVars, offsetVars, waitVars, hedgeVars, closeVars, ioVars, bookVars, closeRunVars, objectVars>>
notEngine == <<gateVars, ctlVars, entryVars, adapterVars, collectVars, ctlCloseVars, configVars, offsetVars, waitVars, hedgeVars, closeVars, ioVars, bookVars, closeRunVars, objectVars>>
notObjects == <<gateVars, ctlVars, entryVars, adapterVars, collectVars, ctlCloseVars, configVars, offsetVars, waitVars, hedgeVars, closeVars, ioVars, bookVars, closeRunVars>>
notEntry == <<gateVars, engVars, ctlVars, adapterVars, collectVars, ctlCloseVars, configVars, offsetVars, waitVars, hedgeVars, closeVars, ioVars, bookVars, closeRunVars, objectVars>>
notController == <<entryVars, adapterVars, collectVars, configVars, offsetVars, waitVars, hedgeVars, closeVars, ioVars, bookVars, closeRunVars, objectVars>>
notCollect == <<gateVars, ctlVars, entryVars, adapterVars, ctlCloseVars, configVars, offsetVars, waitVars, hedgeVars, closeVars, ioVars, bookVars, closeRunVars, objectVars>>
notAdapters == <<gateVars, engVars, ctlVars, entryVars, collectVars, ctlCloseVars, configVars, offsetVars, waitVars, hedgeVars, closeVars, ioVars, bookVars, closeRunVars, objectVars>>
notConfig == <<gateVars, engVars, entryVars, adapterVars, collectVars, offsetVars, waitVars, hedgeVars, closeVars, ioVars, bookVars, closeRunVars, objectVars>>
notOffsets == <<gateVars, engVars, ctlVars, entryVars, adapterVars, collectVars, ctlCloseVars, configVars, waitVars, hedgeVars, closeVars, ioVars, bookVars, closeRunVars, objectVars>>
notWait == <<gateVars, engVars, ctlVars, entryVars, adapterVars, collectVars, ctlCloseVars, configVars, offsetVars, hedgeVars, closeVars, ioVars, bookVars, closeRunVars, objectVars>>
notHedge == <<gateVars, engVars, ctlVars, entryVars, adapterVars, collectVars, ctlCloseVars, configVars, offsetVars, waitVars, closeVars, ioVars, bookVars, closeRunVars, objectVars>>
notClose == <<gateVars, engVars, ctlVars, entryVars, adapterVars, collectVars, ctlCloseVars, configVars, offsetVars, waitVars, hedgeVars, ioVars, bookVars, closeRunVars, objectVars>>
notIo == <<gateVars, engVars, ctlVars, entryVars, adapterVars, collectVars, ctlCloseVars, configVars, offsetVars, waitVars, hedgeVars, closeVars, bookVars, closeRunVars, objectVars>>
notBook == <<gateVars, engVars, ctlVars, entryVars, adapterVars, collectVars, ctlCloseVars, configVars, offsetVars, waitVars, hedgeVars, closeVars, ioVars, closeRunVars, objectVars>>
notCloseRun == <<gateVars, engVars, ctlVars, entryVars, adapterVars, collectVars, ctlCloseVars, configVars, offsetVars, waitVars, hedgeVars, closeVars, ioVars, bookVars, objectVars>>

----------------------------------------------------------------------------
(* Generic helpers *)

Abs(x) == IF x < 0 THEN -x ELSE x
Min2(a, b) == IF a <= b THEN a ELSE b
Max2(a, b) == IF a >= b THEN a ELSE b

----------------------------------------------------------------------------
(* controller/safety.py *)

MaxEnvLen == 3

Unset == <<"unset">>
EnvChars == {" ", "1", "0"}
Whitespace == {" "}

EnvStringsUpTo(n) == UNION {[1..k -> EnvChars] : k \in 0..n}
EnvValues == {Unset} \cup EnvStringsUpTo(MaxEnvLen)

RECURSIVE LStrip(_)
LStrip(s) == IF s # <<>> /\ Head(s) \in Whitespace THEN LStrip(Tail(s)) ELSE s

RECURSIVE RStrip(_)
RStrip(s) ==
    IF s # <<>> /\ s[Len(s)] \in Whitespace
    THEN RStrip(SubSeq(s, 1, Len(s) - 1))
    ELSE s

\* str.strip()
Strip(s) == RStrip(LStrip(s))

\* os.environ.get("CONFIRM_LIVE_TRADING", "")
EnvGet(env) == IF env = Unset THEN <<>> ELSE env

\* the gate with the environment check left out
RequireLiveConfirmationFlagOnly(live_flag, env) ==
    IF ~live_flag THEN "false" ELSE "true"

\* require_live_confirmation(live_flag=..., action_name=...): "false", "true"
\* or "raise" (LiveTradingSafetyError)
RequireLiveConfirmation(live_flag, env) ==
    IF ~live_flag THEN "false"
    ELSE IF Strip(EnvGet(env)) = <<"1">> THEN "true"
    ELSE "raise"

\* what a call leaves in the environment: the function only reads it
EnvAfterCall(live_flag, env) == env

\* the caller prepares the environment for the next call
\* (os.environ[...] = v, os.environ.pop(...))
SetEnv ==
    /\ \E v \in EnvValues : environ' = v
    /\ gateLive' = FALSE
    /\ gateResult' = "none"
    /\ gateEnv' = Unset
    /\ UNCHANGED notGate

CallGate ==
    \E live \in BOOLEAN :
        /\ gateLive' = live
        /\ gateEnv' = environ
        /\ gateResult' = RequireLiveConfirmation(live, environ)
        /\ environ' = EnvAfterCall(live, environ)
        /\ UNCHANGED notGate

----------------------------------------------------------------------------
(* controller/models.py, controller/delta_engine.py *)

MaxPosLots == 3

PositionSizes == (-MaxPosLots)..MaxPosLots
RefPrices == {0, 40000, 40400, 40800}
Availables == {0, 100}
ExchangePairs == {<<"extended", "variational">>, <<"nado", "extended">>}

ExchangeState(name, avail, pos, ref) ==
    [exchange |-> name, available |-> avail, position |-> pos, reference_price |-> ref]

DeltaSnapshot(ext, nado) == [extended_state |-> ext, nado_state |-> nado]

extended_position(s) == s.extended_state.position
nado_position(s) == s.nado_state.position

net_delta(s) == extended_position(s) + nado_position(s)

net_delta_usd(s) ==
    LET ref == (s.extended_state.reference_price + s.nado_state.reference_price) \div 2
    IN  IF ref = 0 THEN 0 ELSE net_delta(s) * ref

mid_reference_price(s) ==
    LET p1 == s.extended_state.reference_price
        p2 == s.nado_state.reference_price
    IN  IF p1 > 0 /\ p2 > 0 THEN (p1 + p2) \div 2
        ELSE IF p1 # 0 THEN p1 ELSE p2

RebalanceAction(exchange, side, amount, price) ==
    [exchange |-> exchange, side |-> side, amount |-> amount, price |-> price]

DeltaDecision(delta, delta_usd, within) ==
    [net_delta |-> delta, net_delta_usd |-> delta_usd, within_tolerance |-> within,
     actions |-> <<>>, warnings |-> <<>>]

Warn(kind, who) == <<kind, who>>

\* the checks placed after the early return for a balanced snapshot
CheckSafetyAfterReturn(cfg, s, d) ==
    IF d.within_tolerance THEN d
    ELSE [d EXCEPT !.warnings = d.warnings \o
            (IF s.extended_state.reference_price <= 0
             THEN <<Warn("ref_price", s.extended_state.exchange)>> ELSE <<>>)]

\* DeltaEngine._check_safety: appends to decision.warnings, touches nothing else
CheckSafety(cfg, s, d) ==
    LET ext == s.extended_state
        nado == s.nado_state
        w1 == IF ext.reference_price <= 0 THEN <<Warn("ref_price", ext.exchange)>> ELSE <<>>
        w2 == IF nado.reference_price <= 0 THEN <<Warn("ref_price", nado.exchange)>> ELSE <<>>
        w3 == IF ext.available < cfg.min_balance_usd
              THEN <<Warn("balance", ext.exchange)>> ELSE <<>>
        w4 == IF nado.available < cfg.min_balance_usd
              THEN <<Warn("balance", nado.exchange)>> ELSE <<>>
        spread == Abs(ext.reference_price - nado.reference_price)
        \* spread / min(...) * 100 > 1.0
        w5 == IF /\ ext.reference_price > 0
                 /\ nado.reference_price > 0
                 /\ spread * 100 > Min2(ext.reference_price, nado.reference_price)
              THEN <<Warn("spread", "both")>> ELSE <<>>
    IN  [d EXCEPT !.warnings = d.warnings \o w1 \o w2 \o w3 \o w4 \o w5]

\* the position the validation compares against the cap, or -1 for an
\* exchange that is in neither state of the snapshot
ValidationCurrent(a, s) ==
    IF a.exchange = s.extended_state.exchange THEN Abs(extended_position(s))
    ELSE IF a.exchange = s.nado_state.exchange THEN Abs(nado_position(s))
    ELSE -1

\* the validation appending every action, the cap test without effect
ActionPassesUnchecked(cfg, a, s) == ValidationCurrent(a, s) >= 0

ActionPasses(cfg, a, s) ==
    /\ ValidationCurrent(a, s) >= 0
    /\ ~(ValidationCurrent(a, s) + a.amount > cfg.max_position_base)

\* DeltaEngine._validate_actions
ValidateActions(cfg, actions, s) ==
    SelectSeq(actions, LAMBDA a : ActionPasses(cfg, a, s))

\* the order size without the max_order_size_base cap
RebalanceAmountUncapped(cfg, delta) == Abs(delta)

RebalanceAmount(cfg, delta) == Min2(Abs(delta), cfg.max_order_size_base)

\* offset = ref_price * price_offset_pct / 100, price_offset_pct in basis points
PriceOffset(cfg, ref_price) == (ref_price * cfg.price_offset_bp) \div 10000

\* the venue choice with a strict comparison: a tie goes to the second venue
SellVenueStrict(s) ==
    IF extended_position(s) > nado_position(s)
    THEN s.extended_state.exchange ELSE s.nado_state.exchange

\* the venue choice reversed: the sell goes to the smaller signed position
SellVenueSmaller(s) ==
    IF extended_position(s) >= nado_position(s)
    THEN s.nado_state.exchange ELSE s.extended_state.exchange

SellVenue(s) ==
    IF extended_position(s) >= nado_position(s)
    THEN s.extended_state.exchange ELSE s.nado_state.exchange

BuyVenue(s) ==
    IF extended_position(s) <= nado_position(s)
    THEN s.extended_state.exchange ELSE s.nado_state.exchange

\* the action list before validation
ProposedActions(cfg, s, delta, ref_price) ==
    IF ref_price <= 0 THEN <<>>
    ELSE IF RebalanceAmount(cfg, delta) <= 0 THEN <<>>
    ELSE IF delta > 0
         THEN <<RebalanceAction(SellVenue(s), "sell", RebalanceAmount(cfg, delta),
                                ref_price - PriceOffset(cfg, ref_price))>>
         ELSE <<RebalanceAction(BuyVenue(s), "buy", RebalanceAmount(cfg, delta),
                                ref_price + PriceOffset(cfg, ref_price))>>

\* DeltaEngine._generate_rebalance_actions
GenerateRebalanceActions(cfg, s, delta, ref_price) ==
    ValidateActions(cfg, ProposedActions(cfg, s, delta, ref_price), s)

\* the tolerance verdict with either limit sufficing
WithinToleranceEither(cfg, delta, delta_usd) ==
    \/ Abs(delta) <= cfg.max_delta_base
    \/ Abs(delta_usd) <= cfg.max_delta_usd

WithinTolerance(cfg, delta, delta_usd) ==
    /\ Abs(delta) <= cfg.max_delta_base
    /\ Abs(delta_usd) <= cfg.max_delta_usd

\* the DeltaDecision analyze constructs before the safety checks
NewDecision(cfg, s) ==
    DeltaDecision(net_delta(s), net_delta_usd(s),
                  WithinTolerance(cfg, net_delta(s), net_delta_usd(s)))

\* DeltaEngine.analyze
Analyze(cfg, s) ==
    LET d == CheckSafety(cfg, s, NewDecision(cfg, s))
    IN  IF d.within_tolerance \/ cfg.mode = "monitor" THEN d
        ELSE [d EXCEPT !.actions =
                  GenerateRebalanceActions(cfg, s, net_delta(s), mid_reference_price(s))]

----------------------------------------------------------------------------
(* One analyze call on an engine built from a validated configuration *)

MaxCalls == 3
CallPosLots == 1

\* risk limits as load_config admits them: limits >= 0, order size and
\* position cap > 0, price offset >= 0
EngineConfigs ==
    [mode : {"monitor", "auto"},
     max_delta_base : {0, 1},
     max_delta_usd : {0, 40400},
     max_order_size_base : {1, 2},
     max_position_base : {1, 3},
     min_balance_usd : {0, 100},
     price_offset_bp : {0, 50}]

Snapshots ==
    {DeltaSnapshot(ExchangeState("extended", ae, pe, re),
                   ExchangeState("nado", an, pn, rn)) :
        ae \in Availables, an \in Availables,
        pe \in PositionSizes, pn \in PositionSizes,
        re \in RefPrices, rn \in RefPrices}

EmptySnapshot ==
    DeltaSnapshot(ExchangeState("extended", 0, 0, 0), ExchangeState("nado", 0, 0, 0))
EmptyDecision == DeltaDecision(0, 0, TRUE)

\* decision = engine.analyze(snapshot)
AnalyzeCall ==
    /\ engCalls = 0
    /\ decision' = Analyze(engCfg, snapshot)
    /\ firstSnapshot' = snapshot
    /\ firstDecision' = Analyze(engCfg, snapshot)
    /\ engCalls' = 1
    /\ UNCHANGED <<engCfg, snapshot>>
    /\ UNCHANGED notEngine

(* Repeated analyze calls on one engine, on snapshots that differ between calls *)

CallConfigs ==
    {c \in EngineConfigs :
        /\ c.max_delta_base = 0 /\ c.max_delta_usd = 0
        /\ c.max_order_size_base = 1 /\ c.max_position_base = 3
        /\ c.price_offset_bp = 50}

CallSnapshots ==
    {DeltaSnapshot(ExchangeState("extended", 0, pe, 40000),
                   ExchangeState("nado", 100, pn, rn)) :
        pe \in (-CallPosLots)..CallPosLots, pn \in {-1, 1},
        rn \in {0, 40800}}

\* the objects: the engine with its attributes, the snapshots callers have
\* built, the list objects, the decisions (their actions and warnings are
\* references to list objects), and for every call the snapshot object it
\* was given, what that snapshot held when the caller passed it, the decision
\* object it returned and what the caller read in it on return
NoObjects ==
    [engine |-> <<>>, snapshots |-> <<>>, lists |-> <<>>, decisions |-> <<>>,
     calls |-> <<>>]

\* DeltaEngine.__init__: self._config = config, self._risk = config.risk
NewEngine(cfg) ==
    [NoObjects EXCEPT !.engine =
        [_config |-> [mode |-> cfg.mode, price_offset_bp |-> cfg.price_offset_bp],
         _risk |-> [max_delta_base |-> cfg.max_delta_base,
                    max_delta_usd |-> cfg.max_delta_usd,
                    max_order_size_base |-> cfg.max_order_size_base,
                    max_position_base |-> cfg.max_position_base,
                    min_balance_usd |-> cfg.min_balance_usd]]]

\* what analyze reads through self._config and self._risk
EngineConfig(engine) ==
    [mode |-> engine._config.mode,
     max_delta_base |-> engine._risk.max_delta_base,
     max_delta_usd |-> engine._risk.max_delta_usd,
     max_order_size_base |-> engine._risk.max_order_size_base,
     max_position_base |-> engine._risk.max_position_base,
     min_balance_usd |-> engine._risk.min_balance_usd,
     price_offset_bp |-> engine._config.price_offset_bp]

\* the warnings list of a decision, had the class held one list for all of
\* its instances (a mutable default instead of default_factory)
SharedWarningsList(o) ==
    IF o.decisions = <<>> THEN Len(o.lists) + 2 ELSE o.decisions[1].warnings

\* field(default_factory=list) of DeltaDecision.warnings: a new list object,
\* built after the one of DeltaDecision.actions
NewWarningsList(o) ==
    Len(o.lists) + 2

\* the decision as its holder reads it: the lists its fields refer to
DecisionValue(o, did) ==
    [o.decisions[did] EXCEPT !.actions = o.lists[@], !.warnings = o.lists[@]]

\* DeltaEngine.analyze(snapshot) on the objects: it reads the engine and the
\* snapshot, builds a DeltaDecision with two new lists, _check_safety appends
\* to the list decision.warnings refers to, and decision.actions is bound to
\* the list _validate_actions has built; the new decision is the last one
AnalyzeObjects(o, sid) ==
    LET cfg == EngineConfig(o.engine)
        s == o.snapshots[sid]
        d == NewDecision(cfg, s)
        w == NewWarningsList(o)
        o1 == [o EXCEPT !.lists = @ \o << <<>>, <<>> >>,
                        !.decisions = Append(@, [d EXCEPT !.actions = Len(o.lists) + 1,
                                                          !.warnings = w])]
        o2 == [o1 EXCEPT !.lists[w] =
                  CheckSafety(cfg, s, [d EXCEPT !.warnings = o1.lists[w]]).warnings]
    IN  IF d.within_tolerance \/ cfg.mode = "monitor" THEN o2
        ELSE [o2 EXCEPT
                !.lists = Append(@, GenerateRebalanceActions(cfg, s, net_delta(s),
                                                             mid_reference_price(s))),
                !.decisions[Len(o2.decisions)].actions = Len(o2.lists) + 1]

\* decision = engine.analyze(snapshot) for the snapshot object sid of o
AnalyzeOn(o, sid) ==
    LET after == AnalyzeObjects(o, sid)
        did == Len(after.decisions)
    IN  /\ objects' = [after EXCEPT !.calls =
                          Append(@, [snapshot |-> sid, given |-> o.snapshots[sid],
                                     decision |-> did,
                                     returned |-> DecisionValue(after, did)])]
        /\ snapshot' = o.snapshots[sid]
        /\ decision' = DecisionValue(after, did)
        /\ firstSnapshot' = IF engCalls = 0 THEN o.snapshots[sid] ELSE firstSnapshot
        /\ firstDecision' = IF engCalls = 0 THEN DecisionValue(after, did)
                            ELSE firstDecision
        /\ engCalls' = engCalls + 1
        /\ UNCHANGED engCfg
        /\ UNCHANGED notObjects

\* the caller builds a snapshot and hands it to analyze
AnalyzeNewSnapshot ==
    /\ engCalls < MaxCalls
    /\ \E s \in CallSnapshots :
          AnalyzeOn([objects EXCEPT !.snapshots = Append(@, s)],
                    Len(objects.snapshots) + 1)

\* the caller hands analyze a snapshot object it has handed over before
AnalyzeSameSnapshot ==
    /\ engCalls < MaxCalls
    /\ \E sid \in 1..Len(objects.snapshots) : AnalyzeOn(objects, sid)

----------------------------------------------------------------------------
(* controller/__main__.py, controller/controller.py *)

MaxCycles == 2
NumInstruments == 2

\* configurations of the running controller: the mode after the --mode override
ControllerConfigs ==
    {c \in EngineConfigs :
        /\ c.max_delta_base = 0 /\ c.max_delta_usd = 0
        /\ c.max_order_size_base = 1 /\ c.max_position_base = 3
        /\ c.min_balance_usd = 0 /\ c.price_offset_bp = 50}

\* values of CONFIRM_LIVE_TRADING a command is started with
EnvSamples == {Unset, <<"1">>, <<"0">>}

\* what _collect_state returns for the two venues of a cycle; a failed read
\* leaves the field at its zero default
CycleSnapshots ==
    {DeltaSnapshot(ExchangeState("extended", 100, pe, re),
                   ExchangeState("variational", 100, pn, rn)) :
        pe \in {-1, 0, 1}, pn \in {-1, 0, 1}, re \in {0, 40000}, rn \in {0, 40000}}

\* main(): parse_args, load_config, the --mode override and the gate
CtlMain ==
    /\ ctlPc = "start"
    /\ IF engCfg.mode = "auto"
       THEN /\ gateLive' = argLive
            /\ gateEnv' = environ
            /\ gateResult' = RequireLiveConfirmation(argLive, environ)
            /\ environ' = EnvAfterCall(argLive, environ)
            /\ IF RequireLiveConfirmation(argLive, environ) = "raise"
               THEN ctlPc' = "exited" /\ ctlExit' = 2
               ELSE ctlPc' = "initialize" /\ ctlExit' = ctlExit
       ELSE /\ ctlPc' = "initialize"
            /\ UNCHANGED <<gateVars, ctlExit>>
    /\ UNCHANGED <<engVars, argLive, ctlRunning, ctlStopAsked, ctlCycle, ctlInst,
                   ctlPending, ctlPlaced>>
    /\ UNCHANGED notController
    /\ UNCHANGED ctlCloseVars

\* the two venues of the active pair, in the order initialize() builds them
ActivePair == <<"extended", "variational">>

\* await controller.initialize(): the adapters initialize one after the other
\* and are registered, or one raises: main's except clause calls sys.exit(1)
\* and its finally clause closes the adapters registered so far
CtlInitialize ==
    /\ ctlPc = "initialize"
    /\ \E initialized \in 0..Len(ActivePair) :
        /\ ctlAdapters' = SubSeq(ActivePair, 1, initialized)
        /\ IF initialized = Len(ActivePair) THEN ctlPc' = "run" /\ ctlExit' = ctlExit
           ELSE ctlPc' = "main_finally" /\ ctlExit' = 1
    /\ UNCHANGED <<gateVars, engVars, argLive, ctlRunning, ctlStopAsked, ctlCycle,
                   ctlInst, ctlPending, ctlPlaced, ctlCloseLog>>
    /\ UNCHANGED notController

\* run(): self._running = True
CtlRunStart ==
    /\ ctlPc = "run"
    /\ ctlRunning' = TRUE
    /\ ctlPc' = "loop"
    /\ UNCHANGED <<gateVars, engVars, argLive, ctlExit, ctlStopAsked, ctlCycle, ctlInst,
                   ctlPending, ctlPlaced>>
    /\ UNCHANGED notController
    /\ UNCHANGED ctlCloseVars

\* stop(), called by the signal handler between two steps of the event loop
CtlStop ==
    /\ ctlPc \in {"initialize", "loop", "collect", "execute", "sleep"}
    /\ ~ctlStopAsked
    /\ ctlRunning' = FALSE
    /\ ctlStopAsked' = TRUE
    /\ UNCHANGED <<gateVars, engVars, argLive, ctlPc, ctlExit, ctlCycle, ctlInst,
                   ctlPending, ctlPlaced>>
    /\ UNCHANGED notController
    /\ UNCHANGED ctlCloseVars

\* while self._running: the head of _run_cycle, or the way out to the
\* finally clause of run()
CtlLoopHead ==
    /\ ctlPc = "loop"
    /\ IF ctlRunning
       THEN /\ ctlCycle < MaxCycles
            /\ ctlCycle' = ctlCycle + 1
            /\ ctlInst' = 1
            /\ ctlPc' = "collect"
            /\ ctlExit' = ctlExit
       ELSE /\ ctlPc' = "closing"
            /\ ctlExit' = 0
            /\ UNCHANGED <<ctlCycle, ctlInst>>
    /\ UNCHANGED <<gateVars, engVars, argLive, ctlRunning, ctlStopAsked, ctlPending,
                   ctlPlaced>>
    /\ UNCHANGED notController
    /\ UNCHANGED ctlCloseVars

\* where the cycle goes after an instrument is done
NextInstrumentPc == IF ctlInst < NumInstruments THEN "collect" ELSE "sleep"
NextInstrument == IF ctlInst < NumInstruments THEN ctlInst + 1 ELSE ctlInst

ActionsToExecuteAnyPrice(cfg, s, d) ==
    IF d.actions # <<>> /\ cfg.mode = "auto" THEN d.actions ELSE <<>>

\* the actions _run_cycle hands to _execute_action for a decision
ActionsToExecute(cfg, s, d) ==
    IF d.actions # <<>> /\ cfg.mode = "auto"
    THEN IF s.extended_state.reference_price <= 0 \/ s.nado_state.reference_price <= 0
         THEN <<>>
         ELSE d.actions
    ELSE <<>>

\* _run_cycle for one instrument: collect both states, analyze, log, and
\* decide whether to execute
CtlCollectAnalyze ==
    /\ ctlPc = "collect"
    /\ \E s \in CycleSnapshots :
        /\ snapshot' = s
        /\ decision' = Analyze(engCfg, s)
        /\ ctlPending' = ActionsToExecute(engCfg, s, Analyze(engCfg, s))
        /\ IF ActionsToExecute(engCfg, s, Analyze(engCfg, s)) # <<>>
           THEN ctlPc' = "execute" /\ ctlInst' = ctlInst
           ELSE ctlPc' = NextInstrumentPc /\ ctlInst' = NextInstrument
    /\ UNCHANGED <<gateVars, engCfg, firstSnapshot, firstDecision, engCalls, argLive,
                   ctlExit, ctlRunning, ctlStopAsked, ctlCycle, ctlPlaced>>
    /\ UNCHANGED notController
    /\ UNCHANGED ctlCloseVars

\* _execute_action: adapter.place_limit_order for the next action; a failure
\* drops the rest of the list
CtlExecute ==
    /\ ctlPc = "execute"
    /\ ctlPending # <<>>
    /\ ctlPlaced' = ctlPlaced + 1
    /\ \E success \in BOOLEAN :
        IF success /\ Tail(ctlPending) # <<>>
        THEN /\ ctlPending' = Tail(ctlPending)
             /\ UNCHANGED <<ctlPc, ctlInst>>
        ELSE /\ ctlPending' = <<>>
             /\ ctlPc' = NextInstrumentPc
             /\ ctlInst' = NextInstrument
    /\ UNCHANGED <<gateVars, engVars, argLive, ctlExit, ctlRunning, ctlStopAsked,
                   ctlCycle>>
    /\ UNCHANGED notController
    /\ UNCHANGED ctlCloseVars

\* await asyncio.sleep(cycle_interval_sec)
CtlSleep ==
    /\ ctlPc = "sleep"
    /\ ctlPc' = "loop"
    /\ UNCHANGED <<gateVars, engVars, argLive, ctlExit, ctlRunning, ctlStopAsked,
                   ctlCycle, ctlInst, ctlPending, ctlPlaced>>
    /\ UNCHANGED notController
    /\ UNCHANGED ctlCloseVars

\* the close() calls of one pass over the adapters, had the loop ended at
\* the first close() that raises
CloseLogUntilRaise(adapters, raising) ==
    LET stops == {i \in 1..Len(adapters) : adapters[i] \in raising}
        last == IF stops = {} THEN Len(adapters)
                ELSE CHOOSE i \in stops : \A j \in stops : i <= j
    IN  [i \in 1..last |-> [adapter |-> adapters[i], raised |-> adapters[i] \in raising]]

\* the close() calls of one pass over self._adapters.values(): an exception
\* of one close() is logged and the loop goes on
CloseLog(adapters, raising) ==
    [i \in 1..Len(adapters) |-> [adapter |-> adapters[i], raised |-> adapters[i] \in raising]]

\* the finally clause of run(): await self.close(), which sets
\* self._running = False and closes every adapter; run() then returns to main
CtlClose ==
    /\ ctlPc = "closing"
    /\ ctlRunning' = FALSE
    /\ \E raising \in SUBSET {ctlAdapters[i] : i \in 1..Len(ctlAdapters)} :
        ctlCloseLog' = ctlCloseLog \o CloseLog(ctlAdapters, raising)
    /\ ctlPc' = "main_finally"
    /\ UNCHANGED <<gateVars, engVars, argLive, ctlExit, ctlStopAsked, ctlCycle, ctlInst,
                   ctlPending, ctlPlaced, ctlAdapters>>
    /\ UNCHANGED notController

\* the finally clause of main(): await controller.close(), one more pass over
\* the adapters, after run() has returned or initialize() has raised
CtlMainClose ==
    /\ ctlPc = "main_finally"
    /\ ctlRunning' = FALSE
    /\ \E raising \in SUBSET {ctlAdapters[i] : i \in 1..Len(ctlAdapters)} :
        ctlCloseLog' = ctlCloseLog \o CloseLog(ctlAdapters, raising)
    /\ ctlPc' = "exited"
    /\ UNCHANGED <<gateVars, engVars, argLive, ctlExit, ctlStopAsked, ctlCycle, ctlInst,
                   ctlPending, ctlPlaced, ctlAdapters>>
    /\ UNCHANGED notController

----------------------------------------------------------------------------
(* controller/controller.py: _collect_state *)

\* one awaited read of asyncio.gather(..., return_exceptions=True): a value,
\* or the exception the task ended with
ReadValue(v) == [ok |-> TRUE, value |-> v]
ReadFailed(exc) == [ok |-> FALSE, value |-> exc]

\* outcomes of get_balance, get_position, get_open_orders, get_reference_price
VenueReads ==
    [balance : {ReadValue(0), ReadValue(100), ReadFailed(-1)},
     position : {ReadValue(-1), ReadValue(0), ReadValue(1), ReadFailed(-1)},
     open_orders : {ReadValue(<<>>), ReadValue(<<"order">>), ReadFailed(<<"exception">>)},
     reference_price : {ReadValue(0), ReadValue(40000), ReadFailed(-1)}]

CycleReads == [primary : VenueReads, secondary : VenueReads]

IdleReads == CHOOSE r \in CycleReads : TRUE

\* ExchangeState(exchange=adapter.name, instrument=instrument, timestamp=ts)
DefaultState(name) ==
    [exchange |-> name, balance |-> 0, position |-> 0, open_orders |-> <<>>,
     reference_price |-> 0]

NotCollected == <<>>

collect_state_unless_any_failed(name, results) ==
    IF results.balance.ok /\ results.position.ok /\ results.open_orders.ok
       /\ results.reference_price.ok
    THEN [exchange |-> name, balance |-> results.balance.value,
          position |-> results.position.value,
          open_orders |-> results.open_orders.value,
          reference_price |-> results.reference_price.value]
    ELSE DefaultState(name)

\* _collect_state: each result that is not an exception replaces its default
collect_state(name, results) ==
    LET s0 == DefaultState(name)
        s1 == IF results.balance.ok THEN [s0 EXCEPT !.balance = results.balance.value]
              ELSE s0
        s2 == IF results.position.ok THEN [s1 EXCEPT !.position = results.position.value]
              ELSE s1
        s3 == IF results.open_orders.ok
              THEN [s2 EXCEPT !.open_orders = results.open_orders.value] ELSE s2
    IN  IF results.reference_price.ok
        THEN [s3 EXCEPT !.reference_price = results.reference_price.value] ELSE s3

\* the part of a collected state the engine reads
EngineView(st) == ExchangeState(st.exchange, st.balance, st.position, st.reference_price)

\* _run_cycle for one instrument up to the decision: both states are
\* collected, the snapshot is built and the engine is called
CollectAndAnalyze ==
    /\ collected = NotCollected
    /\ LET ext_state == collect_state("extended", reads.primary)
           nado_state == collect_state("variational", reads.secondary)
           s == DeltaSnapshot(EngineView(ext_state), EngineView(nado_state))
       IN  /\ collected' = <<ext_state, nado_state>>
           /\ snapshot' = s
           /\ decision' = Analyze(engCfg, s)
    /\ engCalls' = engCalls + 1
    /\ UNCHANGED <<engCfg, firstSnapshot, firstDecision, reads>>
    /\ UNCHANGED notCollect

----------------------------------------------------------------------------
(* One venue read of the core and the failure of its first attempts:         *)
(* controller/controller.py (_collect_state) and                             *)
(* controller/scripts/enter_delta_neutral.py (wait_fill, hedge confirmation) *)

MaxIoRetries == 3
MaxIoFailures == 2

\* the reads the core awaits
IoSites == {"collect_state", "wait_fill", "hedge_confirm"}

\* what a failing attempt raises
IoErrors == {"TimeoutError", "RuntimeError"}

\* config.max_retries, and a venue whose first `failures` answers to the read
\* are transient errors and whose later answers are values
IoConfigs ==
    [site : IoSites, max_retries : 0..MaxIoRetries, failures : 0..MaxIoFailures,
     error : IoErrors]

IdleIoConfig ==
    [site |-> "collect_state", max_retries |-> 0, failures |-> 0, error |-> "TimeoutError"]

NotRead == [pc |-> "idle", attempts |-> 0, outcome |-> "none"]

\* the answer of the venue to the n-th attempt
IoAnswer(cfg, n) == IF n <= cfg.failures THEN "error" ELSE "value"

\* what the awaiting code does with an exception of the read:
\* _collect_state logs it and keeps the default of ExchangeState;
\* wait_fill and the confirmation loop have no handler: a RuntimeError out of
\* wait_fill is caught by the chunk loop, which abandons the chunk, and every
\* other exception ends main
IoGivenUp(cfg) ==
    IF cfg.site = "collect_state" THEN "defaulted"
    ELSE IF cfg.site = "wait_fill" /\ cfg.error = "RuntimeError" THEN "chunk_abandoned"
    ELSE "run_ended"

\* the code reaches the read
IoBegin ==
    /\ io.pc = "idle"
    /\ io' = [io EXCEPT !.pc = "reading"]
    /\ UNCHANGED ioCfg
    /\ UNCHANGED notIo

\* await adapter.get_...(...): one call; its value is used, its exception is
\* handled as IoGivenUp says, and in neither case is the call made again
IoRead ==
    /\ io.pc = "reading"
    /\ io' = [io EXCEPT !.pc = "done",
                        !.attempts = io.attempts + 1,
                        !.outcome = IF IoAnswer(ioCfg, io.attempts + 1) = "value"
                                    THEN "value" ELSE IoGivenUp(ioCfg)]
    /\ UNCHANGED ioCfg
    /\ UNCHANGED notIo

----------------------------------------------------------------------------
(* controller/config.py: load_config, and its call in controller/__main__.py *)

MaxConfigInstruments == 2

SupportedExchanges == {"extended", "nado", "variational"}

\* _DEFAULT_SECONDARY
DefaultSecondary(primary) == IF primary = "extended" THEN "variational" ELSE "extended"

\* one item of the instruments list: its symbol and the mappings it carries
RawInstruments ==
    {[symbol |-> sym, mappings |-> SupportedExchanges \ missing] :
        sym \in {"ETH-PERP", "BTC-PERP"},
        missing \in {{}, {"extended"}, {"nado"}, {"variational"}}}

RECURSIVE SeqsUpTo(_, _)
SeqsUpTo(S, n) ==
    IF n = 0 THEN {<<>>}
    ELSE SeqsUpTo(S, n - 1)
            \cup {Append(q, x) : q \in {r \in SeqsUpTo(S, n - 1) : Len(r) = n - 1}, x \in S}

\* the risk section: valid limits, or one limit set to zero or below zero
RiskFields ==
    {"max_delta_base", "max_delta_usd", "max_order_size_base", "max_position_base",
     "min_balance_usd"}
ValidRisk == [f \in RiskFields |-> 1]
RawRisks == {ValidRisk} \cup {[ValidRisk EXCEPT ![f] = v] : f \in RiskFields, v \in {-1, 0}}

\* config.yaml as yaml.safe_load returns it ("" is an absent secondary_exchange)
\* and the env files present on disk
RawConfigs ==
    [mode : {"monitor", "auto", "paper"},
     primary_exchange : SupportedExchanges \cup {"binance"},
     secondary_exchange : SupportedExchanges \cup {""},
     env_files : SUBSET SupportedExchanges,
     instruments : SeqsUpTo(RawInstruments, MaxConfigInstruments),
     risk : RawRisks]

IdleRawConfig ==
    [mode |-> "monitor", primary_exchange |-> "extended", secondary_exchange |-> "",
     env_files |-> {}, instruments |-> <<>>, risk |-> ValidRisk]
NotLoaded == [raised |-> "", returned |-> FALSE]

ConfigRaised(exc) == [raised |-> exc, returned |-> FALSE]
ConfigReturned(raw, primary, secondary) ==
    [raised |-> "", returned |-> TRUE, mode |-> raw.mode,
     entry_primary_exchange |-> primary, entry_secondary_exchange |-> secondary,
     instruments |-> raw.instruments, risk |-> raw.risk]

\* the instruments loop: the index of the first item that is rejected, for a
\* repeated symbol or a mapping the active pair needs, or 0
FirstBadInstrument(instruments, active) ==
    LET bad == {i \in 1..Len(instruments) :
                    \/ \E j \in 1..(i - 1) : instruments[j].symbol = instruments[i].symbol
                    \/ ~(active \subseteq instruments[i].mappings)}
    IN  IF bad = {} THEN 0 ELSE CHOOSE i \in bad : \A j \in bad : i <= j

\* the env-file test of load_config: extended and nado only
CheckedEnvFiles == {"extended", "nado"}

\* load_config, in the order of its checks
load_config(raw) ==
    IF raw.primary_exchange \notin SupportedExchanges THEN ConfigRaised("ConfigValidationError")
    ELSE
    LET primary == raw.primary_exchange
        secondary == IF raw.secondary_exchange = "" THEN DefaultSecondary(primary)
                     ELSE raw.secondary_exchange
        active == {primary, secondary}
    IN  IF primary = secondary THEN ConfigRaised("ConfigValidationError")
        ELSE IF ~((active \cap CheckedEnvFiles) \subseteq raw.env_files)
        THEN ConfigRaised("FileNotFoundError")
        ELSE IF raw.instruments = <<>> THEN ConfigRaised("ConfigValidationError")
        ELSE IF FirstBadInstrument(raw.instruments, active) # 0
        THEN ConfigRaised("ConfigValidationError")
        ELSE IF \/ raw.risk.max_delta_base < 0 \/ raw.risk.max_delta_usd < 0
                \/ raw.risk.max_order_size_base <= 0 \/ raw.risk.max_position_base <= 0
                \/ raw.risk.min_balance_usd < 0
        THEN ConfigRaised("ConfigValidationError")
        ELSE IF raw.mode \notin {"monitor", "auto"} THEN ConfigRaised("ConfigValidationError")
        ELSE ConfigReturned(raw, primary, secondary)

\* main(): config = load_config(args.config); any exception is printed and
\* the process exits with code 1
CtlLoadConfig ==
    /\ ctlPc = "start"
    /\ loaded = NotLoaded
    /\ loaded' = load_config(rawConfig)
    /\ IF load_config(rawConfig).returned
       THEN ctlPc' = "configured" /\ ctlExit' = ctlExit
       ELSE ctlPc' = "exited" /\ ctlExit' = 1
    /\ UNCHANGED <<argLive, ctlRunning, ctlStopAsked, ctlCycle, ctlInst, ctlPending,
                   ctlPlaced, ctlCloseVars, rawConfig>>
    /\ UNCHANGED notConfig

----------------------------------------------------------------------------
(* controller/scripts/enter_delta_neutral.py *)
(* Amounts are whole lots, so the code's epsilons (1e-9, 1e-8) separate     *)
(* zero from one lot: "x > 1e-8" is x > 0 and "h >= f - 1e-8" is h >= f.   *)
(* Prices and notionals of this script are counted in units of the         *)
(* instrument's price level: a venue that has a price reports 1.           *)

MaxChunks == 2
MaxReplace == 1
EntryLots == 2

\* get_reference_price of a venue: 0 when it has no price to give
RefReads == {0, 1}

EntryPairs ==
    {<<"extended", "variational">>, <<"nado", "extended">>, <<"nado", "variational">>}

\* positions the two venues hold when the script starts
StartPositions == {<<0, 0>>, <<EntryLots, -EntryLots>>, <<0, -1>>}

\* the entry section of config.yaml, the pair and the operator's answer
EntryConfigs ==
    {[primary_exchange |-> pr[1], secondary_exchange |-> pr[2],
      open_direction |-> dir, size |-> sz, has_target |-> ht, target_size |-> tg,
      hedge_retry_count |-> rc, close_min_notional |-> 1,
      post_only |-> TRUE, post_only_fallback_retries |-> 1, ans |-> an,
      action |-> "open"] :
        pr \in EntryPairs, dir \in {"long", "short"}, sz \in {1, EntryLots},
        ht \in BOOLEAN, tg \in {EntryLots}, rc \in {1}, an \in {"y", "n"}}

StartVenues ==
    {[primary_pos |-> p[1], secondary_pos |-> p[2], secondary_seen |-> p[2],
      primary_open |-> 0] : p \in StartPositions}

\* starts that differ: the answer is asked only when a position exists, and a
\* close run reads neither the direction nor the target
EntryStarts(cfg, v) ==
    /\ (v.primary_pos = 0 /\ v.secondary_pos = 0) => cfg.ans = "n"
    /\ (v.primary_pos = 0 /\ v.secondary_pos # 0) => cfg.ans = "y"
    /\ cfg.ans = "y" => cfg.open_direction = "long" /\ ~cfg.has_target

NoChunk ==
    [side_primary |-> "buy", primary_pos_curr |-> 0, secondary_pos_curr |-> 0,
     ref_primary |-> 0, offset_idx |-> 0, queue_len |-> 0, extra_fallbacks |-> 0, chunk |-> 0,
     replaced |-> 0, filled |-> 0, secondary_pos_before |-> 0, hedge_orders |-> 0,
     ioc_success |-> FALSE, hedged_amount |-> 0, residual_unhedged |-> 0,
     retry_idx |-> 0, unwind |-> <<>>, primary_placed |-> FALSE, confirm_read |-> FALSE,
     hedge_side |-> "buy", hedge_amount |-> 0]

OppositeSide(side) == IF side = "buy" THEN "sell" ELSE "buy"

\* signed change of a position when amount lots trade on the given side
Signed(side, amount) == IF side = "buy" THEN amount ELSE -amount

filled_by_side_uncapped(start_pos, end_pos, side, cap) ==
    Max2(0, IF side = "buy" THEN end_pos - start_pos ELSE start_pos - end_pos)

filled_by_side(start_pos, end_pos, side, cap) ==
    Max2(0, Min2(cap, IF side = "buy" THEN end_pos - start_pos ELSE start_pos - end_pos))

filled_delta(target_side, start_pos, target_delta, current) ==
    Max2(0, Min2(target_delta,
                 IF target_side = "buy" THEN current - start_pos ELSE start_pos - current))

\* filled >= target_delta * 0.999
FillReached(filled, target_delta) == filled * 1000 >= target_delta * 999

ChosenAction(primary_pos0, secondary_pos0, ans) ==
    IF (Abs(primary_pos0) > 0 \/ Abs(secondary_pos0) > 0) /\ ans = "y"
    THEN "close" ELSE "open"

InitialTotalFilled(cfg, action, primary_pos0) ==
    IF action = "open" /\ cfg.has_target
    THEN Min2(cfg.target_size,
              Max2(0, (IF cfg.open_direction = "long" THEN 1 ELSE -1) * primary_pos0))
    ELSE 0

\* leaving the try block: the finally clause runs next
Leave(how) == entryPc' = "cleanup" /\ entryExit' = how

\* main() up to the --live check
EntryStart ==
    /\ entryPc = "start"
    /\ IF ~argLive
       THEN entryPc' = "exited" /\ entryExit' = "blocked"
       ELSE entryPc' = "setup" /\ entryExit' = entryExit
    /\ UNCHANGED <<entryCfg, shutdown_event, venue, chunk, total_filled, entryPlaced,
                   entryChunks>>
    /\ UNCHANGED notEntry

\* configuration, adapters, starting positions, the choice of action
EntrySetup ==
    /\ entryPc = "setup"
    /\ entryCfg' = [entryCfg EXCEPT
                      !.action = ChosenAction(venue.primary_pos, venue.secondary_seen,
                                              entryCfg.ans)]
    /\ total_filled' = InitialTotalFilled(entryCfg, entryCfg'.action, venue.primary_pos)
    /\ entryPc' = "loop_head"
    /\ UNCHANGED <<entryExit, shutdown_event, venue, chunk, entryPlaced, entryChunks>>
    /\ UNCHANGED notEntry

\* SIGINT / SIGTERM while the script runs
RequestShutdown ==
    /\ entryPc \notin {"start", "cleanup", "exited"}
    /\ ~shutdown_event
    /\ shutdown_event' = TRUE
    /\ UNCHANGED <<entryCfg, entryPc, entryExit, venue, chunk, total_filled, entryPlaced,
                   entryChunks>>
    /\ UNCHANGED notEntry

SidePrimary(cfg, primary_pos_curr, secondary_pos_curr) ==
    IF cfg.action = "open"
    THEN IF cfg.open_direction = "long" THEN "buy" ELSE "sell"
    ELSE IF primary_pos_curr > 0 THEN "sell"
         ELSE IF primary_pos_curr < 0 THEN "buy"
         ELSE IF secondary_pos_curr > 0 THEN "buy" ELSE "sell"

\* head of the chunk loop: shutdown check, positions, reference price, side
EntryLoopHead ==
    /\ entryPc = "loop_head"
    /\ \E ref_primary \in RefReads :
        IF shutdown_event
        THEN entryPc' = "finish" /\ UNCHANGED <<entryExit, chunk, entryChunks>>
        ELSE IF entryCfg.action = "close" /\ venue.primary_pos = 0
                /\ venue.secondary_seen = 0
        THEN entryPc' = "finish" /\ UNCHANGED <<entryExit, chunk, entryChunks>>
        ELSE IF ref_primary <= 0
        THEN Leave("no_ref_primary") /\ UNCHANGED <<chunk, entryChunks>>
        ELSE /\ entryChunks < MaxChunks
             /\ chunk' = [NoChunk EXCEPT
                            !.side_primary = SidePrimary(entryCfg, venue.primary_pos,
                                                         venue.secondary_seen),
                            !.primary_pos_curr = venue.primary_pos,
                            !.secondary_pos_curr = venue.secondary_seen,
                            !.ref_primary = ref_primary,
                            !.queue_len = 2]
             /\ entryChunks' = entryChunks + 1
             /\ entryPc' = "place"
             /\ entryExit' = entryExit
    /\ UNCHANGED <<entryCfg, shutdown_event, venue, total_filled, entryPlaced>>
    /\ UNCHANGED notEntry

\* close_min_notional / max(ref, 1e-9), in lots: a price of 0 is floored to
\* 1e-9 price units
MinAmount(notional, ref) ==
    IF ref > 0 THEN notional \div ref ELSE notional * 1000000000

MinCloseAmount(notional, ref_primary, ref_secondary) ==
    Max2(MinAmount(notional, ref_primary), MinAmount(notional, ref_secondary))

CloseBasis(primary_pos_curr, secondary_pos_curr) ==
    IF Abs(primary_pos_curr) > 0 THEN Abs(primary_pos_curr) ELSE Abs(secondary_pos_curr)

\* CloseChunk without the rule that clears a remainder below the minimum
CloseChunkLeavingDust(size, basis, min_close_amount) ==
    LET c0 == Min2(size, basis)
    IN  IF c0 < min_close_amount THEN Min2(basis, min_close_amount) ELSE c0

CloseChunk(size, basis, min_close_amount) ==
    LET c0 == Min2(size, basis)
        c1 == IF c0 < min_close_amount THEN Min2(basis, min_close_amount) ELSE c0
        remainder_after_chunk == Max2(0, basis - c1)
    IN  IF remainder_after_chunk > 0 /\ remainder_after_chunk < min_close_amount
        THEN basis ELSE c1

OpenRemaining(cfg, total) == IF cfg.has_target THEN cfg.target_size - total ELSE cfg.size

\* the offsets loop is over: its locals (and the reads made for it) are not
\* used again
EndOffsets(c) ==
    [c EXCEPT !.offset_idx = 0, !.queue_len = 0, !.extra_fallbacks = 0,
              !.ref_primary = 0, !.secondary_pos_curr = 0]

\* results of place_limit_order on the primary venue
PrimaryResults == {"ok", "post_only_cross", "other"}

\* the failure branch of a primary placement: one more offset is queued or not
AfterPrimaryFailure(cfg, c, res, grows) ==
    IF /\ \/ cfg.post_only /\ res = "post_only_cross"
          \/ cfg.primary_exchange = "extended"
       /\ c.extra_fallbacks < cfg.post_only_fallback_retries
       /\ grows
    THEN [c EXCEPT !.queue_len = @ + 1, !.extra_fallbacks = @ + 1]
    ELSE c

\* clear the primary book, place the maker order for amount lots
PlacePrimary(c, amount) ==
    \E cleared \in BOOLEAN, res \in PrimaryResults, grows \in BOOLEAN :
        IF ~cleared
        THEN /\ chunk' = c
             /\ entryPc' = "place"
             /\ UNCHANGED <<venue, entryPlaced, entryExit>>
        ELSE /\ entryPlaced' = TRUE
             /\ entryExit' = entryExit
             /\ IF res = "ok"
                THEN /\ chunk' = [EndOffsets(c) EXCEPT !.chunk = amount,
                                                        !.primary_placed = TRUE]
                     /\ venue' = [venue EXCEPT !.primary_open = amount]
                     /\ entryPc' = "wait_fill"
                ELSE /\ chunk' = AfterPrimaryFailure(entryCfg, c, res, grows)
                     /\ venue' = [venue EXCEPT !.primary_open = 0]
                     /\ entryPc' = "place"

\* the chunk is already decided without an order (chosen_limit set, break)
NoOrderNeeded(c, amount) ==
    /\ chunk' = [EndOffsets(c) EXCEPT !.chunk = amount]
    /\ entryPc' = "wait_fill"
    /\ UNCHANGED <<venue, entryPlaced, entryExit>>

\* a pre-check rejected this offset (continue)
SkipOffset(c) ==
    /\ chunk' = c
    /\ entryPc' = "place"
    /\ UNCHANGED <<venue, entryPlaced, entryExit>>

PlaceOpen(c) ==
    LET remaining == OpenRemaining(entryCfg, total_filled)
        amount == Min2(entryCfg.size, remaining)
    IN  IF remaining <= 0
        THEN NoOrderNeeded(c, 0)
        ELSE IF entryCfg.primary_exchange = "extended"
        THEN \E margin_ok \in BOOLEAN :
                IF margin_ok THEN PlacePrimary(c, amount) ELSE SkipOffset(c)
        ELSE IF entryCfg.primary_exchange = "nado"
                /\ entryCfg.secondary_exchange = "extended"
        THEN \E max_secondary \in 0..amount :
                IF max_secondary <= 0 THEN SkipOffset(c)
                ELSE PlacePrimary(c, Min2(amount, max_secondary))
        ELSE PlacePrimary(c, amount)

PlaceClose(c) ==
    \E ref_secondary \in RefReads :
        LET basis == CloseBasis(c.primary_pos_curr, c.secondary_pos_curr)
            min_close_amount == MinCloseAmount(entryCfg.close_min_notional,
                                               c.ref_primary, ref_secondary)
            amount == CloseChunk(entryCfg.size, basis, min_close_amount)
        IN  IF basis < min_close_amount
            THEN /\ Leave("below_min_close")
                 /\ chunk' = EndOffsets(c)
                 /\ UNCHANGED <<venue, entryPlaced>>
            ELSE IF amount <= 0 THEN NoOrderNeeded(c, amount)
            ELSE PlacePrimary(c, amount)

\* one pass of the offsets loop, or its end without an order on the book
EntryPlace ==
    /\ entryPc = "place"
    /\ IF chunk.offset_idx >= chunk.queue_len
       THEN /\ entryPc' = "loop_head"
            /\ chunk' = EndOffsets(chunk)
            /\ UNCHANGED <<venue, entryPlaced, entryExit>>
       ELSE IF entryCfg.action = "open"
       THEN PlaceOpen([chunk EXCEPT !.offset_idx = @ + 1])
       ELSE PlaceClose([chunk EXCEPT !.offset_idx = @ + 1])
    /\ UNCHANGED <<entryCfg, shutdown_event, total_filled, entryChunks>>
    /\ UNCHANGED notEntry

\* how far a reduce-only order on the given side can still trade
ReduceRoom(side, pos) == IF side = "buy" THEN Max2(0, -pos) ELSE Max2(0, pos)

\* lots of an order the venue can execute
Executable(side, amount, pos, reduce_only) ==
    IF reduce_only THEN Min2(amount, ReduceRoom(side, pos)) ELSE amount

\* the primary venue fills part of the resting maker order
PrimaryFill ==
    /\ entryPc \notin {"start", "setup", "exited"}
    /\ venue.primary_open > 0
    /\ \E k \in 1..venue.primary_open :
        /\ k <= Executable(chunk.side_primary, venue.primary_open, venue.primary_pos,
                           entryCfg.action = "close")
        /\ venue' = [venue EXCEPT !.primary_pos = @ + Signed(chunk.side_primary, k),
                                  !.primary_open = @ - k]
    /\ UNCHANGED <<entryCfg, entryPc, entryExit, shutdown_event, chunk, total_filled,
                   entryPlaced, entryChunks>>
    /\ UNCHANGED notEntry

\* the primary venue drops the resting order without filling it
PrimaryOrderDropped ==
    /\ entryPc = "wait_fill"
    /\ venue.primary_open > 0
    /\ venue' = [venue EXCEPT !.primary_open = 0]
    /\ UNCHANGED <<entryCfg, entryPc, entryExit, shutdown_event, chunk, total_filled,
                   entryPlaced, entryChunks>>
    /\ UNCHANGED notEntry

\* get_position on the secondary venue catches up with its executions
SecondaryReport ==
    /\ entryPc \notin {"start", "exited"}
    /\ venue.secondary_seen # venue.secondary_pos
    /\ venue' = [venue EXCEPT !.secondary_seen = venue.secondary_pos]
    /\ UNCHANGED <<entryCfg, entryPc, entryExit, shutdown_event, chunk, total_filled,
                   entryPlaced, entryChunks>>
    /\ UNCHANGED notEntry

\* positions a venue may report: the account can also move for reasons other
\* than the orders of this run
ReportedPositions == {-(EntryLots + 1), -1, 0, 1, EntryLots + 1}

\* the venue about to be read reports some position, whatever the orders of
\* the run did: the primary venue while wait_fill polls it, the secondary
\* venue from the read before the hedge to the last confirmation read
PositionsMove ==
    /\ \/ /\ entryPc \in {"wait_fill", "wait_cancel", "wait_reprice"}
          /\ \E p \in ReportedPositions :
                venue' = [venue EXCEPT !.primary_pos = p]
       \/ /\ entryPc \in {"hedge", "confirm", "retry_confirm"}
          /\ \E q \in ReportedPositions :
                venue' = [venue EXCEPT !.secondary_pos = q, !.secondary_seen = q]
    /\ UNCHANGED <<entryCfg, entryPc, entryExit, shutdown_event, chunk, total_filled,
                   entryPlaced, entryChunks>>
    /\ UNCHANGED notEntry

\* wait_fill: one poll of the primary position
EntryWaitPoll ==
    /\ entryPc = "wait_fill"
    /\ LET filled == filled_delta(chunk.side_primary, chunk.primary_pos_curr, chunk.chunk,
                                  venue.primary_pos)
           remaining == Max2(chunk.chunk - filled, 0)
       IN  IF FillReached(filled, chunk.chunk)
           THEN /\ chunk' = [chunk EXCEPT !.filled = filled, !.replaced = 0]
                /\ entryPc' = "hedge"
                /\ UNCHANGED <<venue, entryPlaced>>
           ELSE IF shutdown_event
           THEN /\ chunk' = [chunk EXCEPT !.filled = filled]
                /\ entryPc' = "wait_cancel"
                /\ UNCHANGED <<venue, entryPlaced>>
           ELSE /\ chunk.replaced < MaxReplace
                /\ \/ /\ venue.primary_open = 0
                      /\ \E ref \in RefReads, ok \in BOOLEAN :
                            /\ ref > 0
                            /\ remaining > 0
                            /\ venue' = [venue EXCEPT
                                           !.primary_open = IF ok THEN remaining ELSE 0]
                      /\ chunk' = [chunk EXCEPT !.replaced = @ + 1]
                      /\ entryPlaced' = TRUE
                      /\ entryPc' = "wait_fill"
                   \/ /\ remaining > 0
                      /\ chunk' = [chunk EXCEPT !.filled = filled]
                      /\ entryPc' = "wait_reprice"
                      /\ UNCHANGED <<venue, entryPlaced>>
    /\ UNCHANGED <<entryCfg, entryExit, shutdown_event, total_filled, entryChunks>>
    /\ UNCHANGED notEntry

\* wait_fill under shutdown: cancel_all_orders, then return the filled amount;
\* a RuntimeError from the cancel sends main back to the loop head
EntryWaitCancel ==
    /\ entryPc = "wait_cancel"
    /\ \E cleared \in BOOLEAN :
        IF cleared
        THEN /\ venue' = [venue EXCEPT !.primary_open = 0]
             /\ chunk' = [chunk EXCEPT !.replaced = 0]
             /\ entryPc' = "hedge"
        ELSE /\ venue' = venue
             /\ chunk' = [chunk EXCEPT !.replaced = 0, !.filled = 0]
             /\ entryPc' = "loop_head"
    /\ UNCHANGED <<entryCfg, entryExit, shutdown_event, total_filled, entryPlaced,
                   entryChunks>>
    /\ UNCHANGED notEntry

\* wait_fill re-pricing: cancel_all_orders, then a new maker order for the rest
EntryWaitReprice ==
    /\ entryPc = "wait_reprice"
    /\ \E cleared \in BOOLEAN, ok \in BOOLEAN :
        IF cleared
        THEN /\ venue' = [venue EXCEPT
                            !.primary_open = IF ok THEN chunk.chunk - chunk.filled ELSE 0]
             /\ chunk' = [chunk EXCEPT !.replaced = @ + 1]
             /\ entryPlaced' = TRUE
             /\ entryPc' = "wait_fill"
        ELSE /\ entryPc' = "loop_head"
             /\ chunk' = [chunk EXCEPT !.replaced = 0, !.filled = 0]
             /\ UNCHANGED <<venue, entryPlaced>>
    /\ UNCHANGED <<entryCfg, entryExit, shutdown_event, total_filled, entryChunks>>
    /\ UNCHANGED notEntry

\* errors a taker placement on the secondary venue can come back with
IocErrors(secondary_exchange) ==
    {"does not cross the book", "other"}
        \cup (IF secondary_exchange = "extended" THEN {"1140"} ELSE {})

\* results of _place_ioc for amount lots: accepted and executed for some part,
\* or rejected
IocResults(side, amount) ==
    {[success |-> TRUE, error |-> "", fill |-> k] :
        k \in 0..Executable(side, amount, venue.secondary_pos, entryCfg.action = "close")}
    \cup {[success |-> FALSE, error |-> e, fill |-> 0] :
            e \in IocErrors(entryCfg.secondary_exchange)}

\* the name ExtendedAdapter is bound in main only when the pair has extended
ExtendedAdapterBound(cfg) ==
    "extended" \in {cfg.primary_exchange, cfg.secondary_exchange}

\* the resolution of the amount of a reduced hedge order: parts of one lot
Lot == 100

\* what _parse_extended_1140 finds in the text of a 1140 rejection: the pair
\* (order_cost, available_for_trade), or nothing when the sentence is missing
NotParsed == <<>>
Parsed1140 == {NotParsed, <<98, 50>>, <<100, 103>>, <<100, 0>>}

\* reduced_amount = filled * scale with
\* scale = max(0.0, min(1.0, available_for_trade / max(order_cost, 1e-9) * 0.98)),
\* the scale in whole percent; no reduced order without a parsed text
ReducedAmount(filled, parsed) ==
    IF parsed = NotParsed THEN 0
    ELSE LET order_cost == parsed[1]
             available_for_trade == parsed[2]
             scale == IF order_cost = 0
                      THEN (IF available_for_trade > 0 THEN 100 ELSE 0)
                      ELSE Max2(0, Min2(100, (available_for_trade * 98) \div order_cost))
         IN  (filled * scale) \div 100

\* the first hedge order, its doubled-slippage repeat and the 1140 repeat,
\* placed when reduced_amount > 1e-8
HedgeOrders(cfg, r1, r2, reduced_amount, r3) ==
    LET a == IF ~r1.success /\ r1.error = "does not cross the book"
             THEN [ioc_res |-> r2, orders |-> 2]
             ELSE [ioc_res |-> r1, orders |-> 1]
    IN  IF ~a.ioc_res.success /\ cfg.action = "open"
        THEN IF ~ExtendedAdapterBound(cfg)
             THEN [ioc_res |-> a.ioc_res, orders |-> a.orders, raised |-> TRUE]
             ELSE IF cfg.secondary_exchange = "extended" /\ a.ioc_res.error = "1140"
                     /\ reduced_amount > 0
             THEN [ioc_res |-> r3, orders |-> a.orders + 1, raised |-> FALSE]
             ELSE [ioc_res |-> a.ioc_res, orders |-> a.orders, raised |-> FALSE]
        ELSE [ioc_res |-> a.ioc_res, orders |-> a.orders, raised |-> FALSE]

\* after wait_fill: the hedge order on the secondary venue
EntryHedge ==
    /\ entryPc = "hedge"
    /\ IF shutdown_event /\ chunk.filled <= 0
       THEN /\ entryPc' = "finish"
            /\ UNCHANGED <<entryExit, chunk, venue, entryPlaced>>
       ELSE \E ref_second \in RefReads :
            IF ref_second <= 0
            THEN /\ Leave("no_ref_secondary")
                 /\ chunk' = [chunk EXCEPT !.secondary_pos_before = venue.secondary_seen]
                 /\ UNCHANGED <<venue, entryPlaced>>
            ELSE LET side_second == OppositeSide(chunk.side_primary) IN
                 \E r1 \in IocResults(side_second, chunk.filled),
                    r2 \in IocResults(side_second, chunk.filled),
                    parsed \in Parsed1140 :
                 \* the venue executes whole lots of the reduced order
                 \E r3 \in IocResults(side_second,
                                      ReducedAmount(chunk.filled * Lot, parsed) \div Lot) :
                    LET reduced_amount == ReducedAmount(chunk.filled * Lot, parsed)
                        h == HedgeOrders(entryCfg, r1, r2, reduced_amount, r3) IN
                    /\ chunk' = [chunk EXCEPT
                                   !.secondary_pos_before = venue.secondary_seen,
                                   !.hedge_orders = h.orders,
                                   !.ioc_success = h.ioc_res.success,
                                   !.hedge_side = side_second,
                                   !.hedge_amount = chunk.filled]
                    /\ venue' = [venue EXCEPT
                                   !.secondary_pos = @ + Signed(side_second, h.ioc_res.fill)]
                    /\ entryPlaced' = TRUE
                    /\ IF h.raised
                       THEN Leave("unbound_local")
                       ELSE entryPc' = "confirm" /\ entryExit' = entryExit
    /\ UNCHANGED <<entryCfg, shutdown_event, total_filled, entryChunks>>
    /\ UNCHANGED notEntry

Confirmed(c, secondary_pos_after) ==
    filled_by_side(c.secondary_pos_before, secondary_pos_after,
                   OppositeSide(c.side_primary), c.filled)

\* the confirmation loop after the first hedge order: one get_position read
EntryConfirm ==
    /\ entryPc = "confirm"
    /\ \E deadline_passed \in BOOLEAN :
        LET hedged_amount == Confirmed(chunk, venue.secondary_seen) IN
        IF hedged_amount >= chunk.filled \/ ~chunk.ioc_success \/ deadline_passed
        THEN /\ chunk' = [chunk EXCEPT
                            !.hedged_amount = hedged_amount,
                            !.residual_unhedged = Max2(0, chunk.filled - hedged_amount),
                            !.confirm_read = TRUE]
             /\ entryPc' = "retry"
        ELSE /\ chunk' = [chunk EXCEPT !.hedged_amount = hedged_amount,
                                       !.confirm_read = TRUE]
             /\ entryPc' = "confirm"
    /\ UNCHANGED <<entryCfg, entryExit, shutdown_event, venue, total_filled, entryPlaced,
                   entryChunks>>
    /\ UNCHANGED notEntry

\* the residual-retry loop: its condition and one more taker order
EntryRetry ==
    /\ entryPc = "retry"
    /\ IF chunk.ioc_success /\ chunk.residual_unhedged > 0
          /\ chunk.retry_idx < entryCfg.hedge_retry_count
       THEN \E ref_second_retry \in RefReads :
            IF ref_second_retry <= 0
            THEN /\ chunk' = [chunk EXCEPT !.retry_idx = @ + 1]
                 /\ entryPc' = "decide"
                 /\ UNCHANGED <<venue, entryPlaced>>
            ELSE \E retry_res \in IocResults(OppositeSide(chunk.side_primary),
                                             chunk.residual_unhedged) :
                 /\ chunk' = [chunk EXCEPT !.retry_idx = @ + 1,
                                           !.hedge_orders = @ + 1,
                                           !.ioc_success = retry_res.success]
                 /\ venue' = [venue EXCEPT
                                !.secondary_pos =
                                    @ + Signed(OppositeSide(chunk.side_primary),
                                               retry_res.fill)]
                 /\ entryPlaced' = TRUE
                 /\ entryPc' = IF retry_res.success THEN "retry_confirm" ELSE "decide"
       ELSE /\ entryPc' = "decide"
            /\ UNCHANGED <<chunk, venue, entryPlaced>>
    /\ UNCHANGED <<entryCfg, entryExit, shutdown_event, total_filled, entryChunks>>
    /\ UNCHANGED notEntry

\* the confirmation loop after a retry order: one get_position read
EntryRetryConfirm ==
    /\ entryPc = "retry_confirm"
    /\ \E deadline_passed \in BOOLEAN :
        LET hedged_amount == Confirmed(chunk, venue.secondary_seen)
            residual_unhedged == Max2(0, chunk.filled - hedged_amount) IN
        /\ chunk' = [chunk EXCEPT !.hedged_amount = hedged_amount,
                                  !.residual_unhedged = residual_unhedged,
                                  !.confirm_read = TRUE]
        /\ entryPc' = IF residual_unhedged <= 0 \/ deadline_passed
                      THEN "retry" ELSE "retry_confirm"
    /\ UNCHANGED <<entryCfg, entryExit, shutdown_event, venue, total_filled, entryPlaced,
                   entryChunks>>
    /\ UNCHANGED notEntry

UnwindAmount(c) == IF c.residual_unhedged > 0 THEN c.residual_unhedged ELSE c.filled

\* results of the unwind order on the primary venue
UnwindResults(side, amount) ==
    {[success |-> TRUE, fill |-> k] :
        k \in 0..Executable(side, amount, venue.primary_pos, entryCfg.action = "open")}
    \cup {[success |-> FALSE, fill |-> 0]}

\* the hedge is incomplete: unwind the primary leg and stop
Unwind ==
    LET unwind_side == OppositeSide(chunk.side_primary)
        unwind_amount == UnwindAmount(chunk)
    IN  \E ref_primary_now \in RefReads :
        IF ref_primary_now <= 0
        THEN /\ Leave("unwind_no_ref")
             /\ UNCHANGED <<chunk, venue, entryPlaced, total_filled>>
        ELSE \E unwind_res \in UnwindResults(unwind_side, unwind_amount) :
             /\ chunk' = [chunk EXCEPT !.unwind = <<unwind_side, unwind_amount>>]
             /\ venue' = [venue EXCEPT
                            !.primary_pos = @ + Signed(unwind_side, unwind_res.fill)]
             /\ entryPlaced' = TRUE
             /\ Leave(IF unwind_res.success THEN "unwound" ELSE "unwind_failed")
             /\ UNCHANGED total_filled

\* the chunk is hedged: account for it and decide whether another one follows
ChunkDone ==
    /\ total_filled' = total_filled + chunk.filled
    /\ entryPc' =
        IF shutdown_event THEN "finish"
        ELSE IF entryCfg.action = "open" /\ ~entryCfg.has_target THEN "finish"
        ELSE IF entryCfg.action = "open" /\ total_filled + chunk.filled >= entryCfg.target_size
        THEN "finish"
        ELSE "loop_head"
    /\ UNCHANGED <<chunk, venue, entryPlaced, entryExit>>

\* after the retries: unwind, or the end of the chunk
EntryDecide ==
    /\ entryPc = "decide"
    /\ IF ~chunk.ioc_success \/ chunk.residual_unhedged > 0 THEN Unwind ELSE ChunkDone
    /\ UNCHANGED <<entryCfg, shutdown_event, entryChunks>>
    /\ UNCHANGED notEntry

\* after the loop: final positions and the trade log
EntryFinish ==
    /\ entryPc = "finish"
    /\ Leave("done")
    /\ UNCHANGED <<entryCfg, shutdown_event, venue, chunk, total_filled, entryPlaced,
                   entryChunks>>
    /\ UNCHANGED notEntry

\* finally: cancel_all_orders on both venues, close the adapters
EntryCleanup ==
    /\ entryPc = "cleanup"
    /\ \E cancelled \in BOOLEAN :
        venue' = [venue EXCEPT !.primary_open = IF cancelled THEN 0 ELSE @]
    /\ entryPc' = "exited"
    /\ UNCHANGED <<entryCfg, entryExit, shutdown_event, chunk, total_filled, entryPlaced,
                   entryChunks>>
    /\ UNCHANGED notEntry

----------------------------------------------------------------------------
(* controller/scripts/enter_delta_neutral.py: the offsets loop of a chunk   *)
(* (primary placement with its post-only fallback).  Offsets are counted in *)
(* units of 1/800 (offset_pct 0.02 is 16), the fallback factor in halves;  *)
(* on the configurations below every product the loop computes is whole.    *)

MaxFallbackRetries == 2

\* the entry section: offset_pct, offset_retry_pct (or the close pair),
\* post_only_fallback_factor in halves, _retries, _max_pct, post_only
OffsetConfigs ==
    [offset_pct : {0, 8, 16}, offset_retry_pct : {8, 16, 32},
     post_only_fallback_factor : {2, 3, 4},
     post_only_fallback_retries : -1..MaxFallbackRetries,
     post_only_fallback_max_pct : {0, 12, 24},
     post_only : BOOLEAN, primary_exchange : {"extended", "nado"}]

IdleOffsetConfig == CHOOSE c \in OffsetConfigs : TRUE

\* the defaults main() puts in place of settings that are out of range
FallbackFactor(cfg) ==
    IF cfg.post_only_fallback_factor <= 2 THEN 3 ELSE cfg.post_only_fallback_factor
FallbackRetries(cfg) ==
    IF cfg.post_only_fallback_retries < 0 THEN 0 ELSE cfg.post_only_fallback_retries
FallbackMaxPct(cfg) ==
    IF cfg.post_only_fallback_max_pct <= 0 THEN 240 ELSE cfg.post_only_fallback_max_pct

NoOffsets ==
    [pc |-> "idle", offsets_queue |-> <<>>, offset_idx |-> 0, extra_fallbacks |-> 0,
     attempts |-> <<>>, appended |-> <<>>]

\* offsets_queue = list(offsets); offset_idx = 0; extra_fallbacks = 0
StartOffsets(cfg) ==
    [NoOffsets EXCEPT !.pc = "loop",
                      !.offsets_queue = <<cfg.offset_pct, cfg.offset_retry_pct>>]

\* what one pass of the loop can meet: a pre-check or a failed clearing of
\* the book skips the offset, the sizing finds nothing to place, or the
\* order is placed and accepted or rejected (for crossing the book only
\* when it was sent post-only)
OffsetOutcomes == {"skipped", "nothing_to_place", "ok", "post_only_cross", "other"}

\* min(off * post_only_fallback_factor, post_only_fallback_max_pct)
NextOff(cfg, off) == Min2((off * FallbackFactor(cfg)) \div 2, FallbackMaxPct(cfg))

\* the failure branch: the fallback offset is appended or not
QueueAfterFailure(cfg, o, off, res) ==
    IF /\ \/ cfg.post_only /\ res = "post_only_cross"
          \/ cfg.primary_exchange = "extended"
       /\ o.extra_fallbacks < FallbackRetries(cfg)
       /\ NextOff(cfg, off) > off
    THEN [o EXCEPT !.offsets_queue = Append(@, NextOff(cfg, off)),
                   !.extra_fallbacks = @ + 1,
                   !.appended = Append(@, NextOff(cfg, off))]
    ELSE o

\* one pass of `while offset_idx < len(offsets_queue)`
OffsetsStep(cfg, o, outcome) ==
    LET off == o.offsets_queue[o.offset_idx + 1]
        o1 == [o EXCEPT !.offset_idx = @ + 1]
        tried == [o1 EXCEPT !.attempts = Append(@, [off |-> off, res |-> outcome])]
    IN  IF outcome = "skipped" THEN o1
        ELSE IF outcome = "nothing_to_place" THEN [o1 EXCEPT !.pc = "chosen"]
        ELSE IF outcome = "ok" THEN [tried EXCEPT !.pc = "chosen"]
        ELSE QueueAfterFailure(cfg, tried, off, outcome)

\* the chunk loop reaches the offsets loop
OffsetsBegin ==
    /\ offsets.pc = "idle"
    /\ offsets' = StartOffsets(offsetCfg)
    /\ UNCHANGED offsetCfg
    /\ UNCHANGED notOffsets

OffsetsTry ==
    /\ offsets.pc = "loop"
    /\ offsets.offset_idx < Len(offsets.offsets_queue)
    /\ \E outcome \in OffsetOutcomes :
          /\ outcome = "post_only_cross" => offsetCfg.post_only
          /\ offsets' = OffsetsStep(offsetCfg, offsets, outcome)
    /\ UNCHANGED offsetCfg
    /\ UNCHANGED notOffsets

\* the queue is used up and no order stands: chosen_limit is None
OffsetsExhausted ==
    /\ offsets.pc = "loop"
    /\ offsets.offset_idx >= Len(offsets.offsets_queue)
    /\ offsets' = [offsets EXCEPT !.pc = "none_chosen"]
    /\ UNCHANGED offsetCfg
    /\ UNCHANGED notOffsets

----------------------------------------------------------------------------
(* controller/scripts/enter_delta_neutral.py: wait_fill, iteration by       *)
(* iteration.  Prices are whole numbers, thresholds and offsets whole       *)
(* percents; a relative distance |placed - ref| / ref is kept as the pair   *)
(* <<|placed - ref|, ref>> and compared by cross-multiplication.            *)

WaitLots == 2

\* prices get_ref_price can return: 0 when the venue has none
WaitRefs == {0, 90, 100, 110}

WaitConfigs ==
    [target_side : {"buy", "sell"}, start_pos : {0}, target_delta : {WaitLots},
     initial_price : {90, 100}, reprice_interval_sec : {0, 30},
     reprice_threshold_pct : {0, 5, 15}, reprice_offset_pct : {0, 10}]

IdleWaitConfig == CHOOSE c \in WaitConfigs : TRUE

\* prev_dist_pct is None
NoDist == <<-1, 1>>

\* abs(placed_price - ref) / ref
DistPct(placed_price, ref) == <<Abs(placed_price - ref), ref>>

\* a > b for two distances
DistGreater(a, b) == a[1] * b[2] > b[1] * a[2]

\* dist_pct > max(reprice_threshold_pct, epsilon)
OverThreshold(dist, threshold_pct) == dist[1] * 100 > threshold_pct * dist[2]

\* ref - delta for a buy, ref + delta for a sell, delta = ref * reprice_offset_pct
NewPrice(cfg, ref) ==
    IF cfg.target_side = "buy" THEN ref - (ref * cfg.reprice_offset_pct) \div 100
    ELSE ref + (ref * cfg.reprice_offset_pct) \div 100

\* moving_away when the first check after a placement counts as moving away
MovingAwayFromNothing(prev_dist_pct, dist_pct) ==
    prev_dist_pct = NoDist \/ DistGreater(dist_pct, prev_dist_pct)

\* if prev_dist_pct is None: prev_dist_pct = dist_pct
\* moving_away = dist_pct > prev_dist_pct + epsilon
MovingAway(prev_dist_pct, dist_pct) ==
    prev_dist_pct # NoDist /\ DistGreater(dist_pct, prev_dist_pct)

\* the locals of wait_fill; `did` is what the latest iteration did on the
\* reprice timer, `measured` the distance of the latest timer check since
\* the order was last placed
NoEvent == [timer_check |-> FALSE, dist_pct |-> NoDist, repriced |-> FALSE, amount |-> 0]
NoWait ==
    [pc |-> "idle", placed_price |-> 0, prev_dist_pct |-> NoDist,
     missing_order |-> FALSE, filled |-> 0, did |-> NoEvent, measured |-> NoDist]

\* what one iteration meets: the position read, the shutdown event, the
\* open-orders check and its clock, the reprice clock, the two price reads,
\* and how cancel and place answer
WaitInputs ==
    {[current |-> cur, shutdown |-> sh, order_is_open |-> (oo = "open"),
      missing_long |-> (oo = "missing_long"), timer_due |-> td, ref_missing |-> rm,
      ref_timer |-> rt, cancel_ok |-> co, placed_ok |-> po] :
        cur \in {-WaitLots, -1, 0, 1, WaitLots}, sh \in BOOLEAN,
        oo \in {"open", "missing", "missing_long"}, td \in BOOLEAN, rm \in {0, 100},
        rt \in WaitRefs, co \in BOOLEAN, po \in BOOLEAN}

\* the has_open_order branch of one iteration
MissingOrderBranch(cfg, w, in, filled) ==
    IF ~(filled < cfg.target_delta) THEN w
    ELSE IF in.order_is_open THEN [w EXCEPT !.missing_order = FALSE]
    ELSE IF ~w.missing_order THEN [w EXCEPT !.missing_order = TRUE]
    ELSE IF ~in.missing_long \/ in.ref_missing <= 0 THEN w
    ELSE IF in.placed_ok
    THEN [w EXCEPT !.placed_price = NewPrice(cfg, in.ref_missing),
                   !.prev_dist_pct = NoDist, !.measured = NoDist,
                   !.missing_order = FALSE]
    ELSE [w EXCEPT !.missing_order = TRUE]

\* the reprice-timer branch of one iteration
RepriceBranch(cfg, w, in, filled) ==
    IF ~(cfg.reprice_interval_sec > 0 /\ in.timer_due) \/ in.ref_timer <= 0 THEN w
    ELSE
    LET dist_pct == DistPct(w.placed_price, in.ref_timer)
        moving_away == MovingAway(w.prev_dist_pct, dist_pct)
        remaining == Max2(cfg.target_delta - filled, 0)
        checked == [w EXCEPT !.prev_dist_pct = dist_pct, !.measured = dist_pct,
                             !.did = [NoEvent EXCEPT !.timer_check = TRUE,
                                                     !.dist_pct = dist_pct]]
    IN  IF ~(moving_away /\ OverThreshold(dist_pct, cfg.reprice_threshold_pct)
             /\ remaining > 0)
        THEN checked
        ELSE IF ~in.cancel_ok
        THEN [checked EXCEPT !.pc = "raised"]
        ELSE IF in.placed_ok
        THEN [checked EXCEPT !.did.repriced = TRUE, !.did.amount = remaining,
                             !.placed_price = NewPrice(cfg, in.ref_timer),
                             !.prev_dist_pct = NoDist]
        ELSE [checked EXCEPT !.did.repriced = TRUE, !.did.amount = remaining]

\* one pass of wait_fill's `while True`
WaitFillIteration(cfg, w, in) ==
    LET filled == filled_delta(cfg.target_side, cfg.start_pos, cfg.target_delta, in.current)
        w0 == [w EXCEPT !.filled = filled, !.did = NoEvent]
    IN  IF FillReached(filled, cfg.target_delta) THEN [w0 EXCEPT !.pc = "returned"]
        ELSE IF in.shutdown
        THEN [w0 EXCEPT !.pc = IF in.cancel_ok THEN "returned" ELSE "raised"]
        ELSE RepriceBranch(cfg, MissingOrderBranch(cfg, w0, in, filled), in, filled)

\* main() calls wait_fill for the chunk it has just placed
WaitFillCall ==
    /\ wait.pc = "idle"
    /\ wait' = [NoWait EXCEPT !.pc = "polling", !.placed_price = waitCfg.initial_price]
    /\ UNCHANGED waitCfg
    /\ UNCHANGED notWait

WaitFillPoll ==
    /\ wait.pc = "polling"
    /\ \E in \in WaitInputs : wait' = WaitFillIteration(waitCfg, wait, in)
    /\ UNCHANGED waitCfg
    /\ UNCHANGED notWait

----------------------------------------------------------------------------
(* controller/scripts/enter_delta_neutral.py: wait_fill and the live orders  *)
(* of the primary venue.  The venue fills live orders between the awaits of  *)
(* an iteration, and its open-orders list may lag behind its order book.     *)

BookLots == 2
MaxBookOrders == 3

\* amounts left of the live primary orders, the movement of the primary
\* position in the chunk direction, and the locals of wait_fill
NoBook ==
    [pc |-> "idle", chunk |-> 0, live |-> <<>>, moved |-> 0, filled |-> 0,
     missing_order |-> FALSE, prev_dist_set |-> FALSE, placements |-> 0]

RECURSIVE SumSeq(_)
SumSeq(q) == IF q = <<>> THEN 0 ELSE Head(q) + SumSeq(Tail(q))

\* the live orders after the i-th of them executed k lots
AfterFill(live, i, k) ==
    IF live[i] = k
    THEN SubSeq(live, 1, i - 1) \o SubSeq(live, i + 1, Len(live))
    ELSE [live EXCEPT ![i] = @ - k]

\* _has_primary_open_order over a list that may lag: an order of the book may
\* not be listed yet, an order that left the book may still be listed
ListedOpen(live) == BOOLEAN

\* main() has placed the maker order of the chunk and calls wait_fill
BookCall ==
    /\ book.pc = "idle"
    /\ \E c \in 1..BookLots :
          book' = [NoBook EXCEPT !.pc = "poll", !.chunk = c, !.live = <<c>>,
                                 !.placements = 1]
    /\ UNCHANGED notBook

\* the venue executes part of a live order
BookFill ==
    /\ book.pc \in {"poll", "check_order", "check_timer"}
    /\ \E i \in 1..Len(book.live) : \E k \in 1..book.live[i] :
          book' = [book EXCEPT !.live = AfterFill(book.live, i, k), !.moved = @ + k]
    /\ UNCHANGED notBook

\* pos = await adapter.get_position(instrument); filled = _filled_delta(current)
BookPoll ==
    /\ book.pc = "poll"
    /\ LET filled == Min2(book.chunk, book.moved)
       IN  book' = [book EXCEPT !.filled = filled,
                                !.pc = IF FillReached(filled, book.chunk)
                                       THEN "returned" ELSE "check_order"]
    /\ UNCHANGED notBook

\* the has_open_order branch: an order missing from the list for long enough
\* is placed again for target_delta - filled, without a cancel
BookCheckOrder ==
    /\ book.pc = "check_order"
    /\ \E order_is_open \in ListedOpen(book.live), long_enough \in BOOLEAN,
          placed_ok \in BOOLEAN :
          LET remaining == Max2(book.chunk - book.filled, 0)
          IN  IF order_is_open
              THEN book' = [book EXCEPT !.missing_order = FALSE, !.pc = "check_timer"]
              ELSE IF ~(book.missing_order /\ long_enough)
              THEN book' = [book EXCEPT !.missing_order = TRUE, !.pc = "check_timer"]
              ELSE /\ book.placements < MaxBookOrders
                   /\ book' = [book EXCEPT
                         !.pc = "check_timer",
                         !.placements = @ + 1,
                         !.missing_order = ~placed_ok,
                         !.prev_dist_set = IF placed_ok THEN FALSE ELSE @,
                         !.live = IF placed_ok THEN Append(@, remaining) ELSE @]
    /\ UNCHANGED notBook

\* the orders of live at the positions kept, in their order
RECURSIVE OrdersKept(_, _, _)
OrdersKept(live, kept, i) ==
    IF i > Len(live) THEN <<>>
    ELSE (IF i \in kept THEN <<live[i]>> ELSE <<>>) \o OrdersKept(live, kept, i + 1)

\* the reprice-timer branch: the first check after a placement only records
\* the distance; a later check that finds the price moving away calls
\* cancel_all_orders and places a new order for target_delta - filled.  The
\* cancels of _clear_primary_open_orders take the orders the venue's list
\* shows, so orders of the book may stay live; whether it reports the orders
\* cleared is read from that list, which may lag either way, and a report of
\* orders left raises RuntimeError
BookCheckTimer ==
    /\ book.pc = "check_timer"
    /\ \E timer_check \in BOOLEAN, moving_away \in BOOLEAN, cleared \in BOOLEAN,
          placed_ok \in BOOLEAN, kept \in SUBSET (1..Len(book.live)) :
          LET remaining == Max2(book.chunk - book.filled, 0)
              left == OrdersKept(book.live, kept, 1)
          IN  IF ~timer_check
              THEN book' = [book EXCEPT !.pc = "poll"]
              ELSE IF ~(book.prev_dist_set /\ moving_away /\ remaining > 0)
              THEN book' = [book EXCEPT !.pc = "poll", !.prev_dist_set = TRUE]
              ELSE IF ~cleared
              THEN book' = [book EXCEPT !.pc = "raised", !.prev_dist_set = TRUE,
                                        !.live = left]
              ELSE /\ book.placements < MaxBookOrders
                   /\ book' = [book EXCEPT
                         !.pc = "poll",
                         !.placements = @ + 1,
                         !.prev_dist_set = ~placed_ok,
                         !.live = IF placed_ok THEN Append(left, remaining) ELSE left]
    /\ UNCHANGED notBook

----------------------------------------------------------------------------
(* controller/scripts/enter_delta_neutral.py: the hedge phase of a chunk    *)
(* with its slippage allowances.  Slippages are counted in units of         *)
(* 0.00005 % (0.05 % is 1000), the retry multiplier in tenths, amounts in   *)
(* hundredths of a lot; on the configurations below every product the       *)
(* phase computes is whole.  The phase is that of action open.              *)

MaxHedgeRetries == 2
HedgeLots == 2

HedgeConfigs ==
    {c \in [primary_exchange : {"nado", "extended"},
            secondary_exchange : {"extended", "variational"},
            slippage_pct : {1000, 12000}, secondary_slippage_pct : {1000, 40000},
            ioc_min_cross_pct : {0, 4000, 12000},
            hedge_retry_count : -1..MaxHedgeRetries,
            hedge_retry_slippage_mult : {10, 15, 20},
            hedge_retry_max_slippage_pct : {0, 3000, 20000},
            filled : {k * Lot : k \in 1..HedgeLots}] :
        c.primary_exchange # c.secondary_exchange}

\* what a read of the secondary position can show as hedged: whole lots
SeenAmounts(cfg) == {k * Lot : k \in 0..(cfg.filled \div Lot)}

IdleHedgeConfig == CHOOSE c \in HedgeConfigs : TRUE

\* the defaults main() puts in place of settings that are out of range
HedgeRetryCount(cfg) == IF cfg.hedge_retry_count < 0 THEN 0 ELSE cfg.hedge_retry_count
HedgeRetrySlippageMult(cfg) ==
    IF cfg.hedge_retry_slippage_mult <= 10 THEN 18 ELSE cfg.hedge_retry_slippage_mult
HedgeRetryMaxSlippagePct(cfg) ==
    IF cfg.hedge_retry_max_slippage_pct <= 0 THEN 20000 ELSE cfg.hedge_retry_max_slippage_pct

\* slip_try = max(slip_base, ioc_min_cross_pct)
FirstSlip(cfg) ==
    Max2(IF cfg.secondary_exchange = "extended" THEN cfg.secondary_slippage_pct
         ELSE cfg.slippage_pct,
         cfg.ioc_min_cross_pct)

\* the retry slippage without its ceiling
RetrySlipUncapped(cfg, slip_try) ==
    Max2(cfg.ioc_min_cross_pct, (slip_try * HedgeRetrySlippageMult(cfg)) \div 10)

\* min(hedge_retry_max_slippage_pct, max(ioc_min_cross_pct, slip_try * mult))
RetrySlip(cfg, slip_try) ==
    Min2(HedgeRetryMaxSlippagePct(cfg),
         Max2(cfg.ioc_min_cross_pct, (slip_try * HedgeRetrySlippageMult(cfg)) \div 10))

\* the locals of the phase; `orders` lists the taker orders placed, each with
\* what the loop knew when it placed it
NoHedge ==
    [pc |-> "idle", slip_try |-> 0, ioc_success |-> FALSE, hedged_amount |-> 0,
     residual_unhedged |-> 0, retry_idx |-> 0, orders |-> <<>>]

HedgeOrder(kind, amount, slip, success, h) ==
    [kind |-> kind, amount |-> amount, slip |-> slip, success |-> success,
     acked_before |-> h.ioc_success, residual_before |-> h.residual_unhedged]

\* answers of the secondary venue to the first order
FirstAnswers == {"ok", "does not cross the book", "1140", "other"}

\* the reference price of the secondary venue, without which main raises
\* SystemExit before any order; the first hedge order, its doubled-slippage
\* repeat and the reduced repeat after a 1140 rejection, where a rejected
\* order of a pair without extended ends main with UnboundLocalError (the
\* name ExtendedAdapter is tested unbound); then the confirmation loop, whose
\* last read saw `seen` hedged
HedgeFirst(cfg, h, ref_ok, first, second, reduced_amount, third_ok, seen) ==
    LET s1 == FirstSlip(cfg)
        h1 == [h EXCEPT !.slip_try = s1, !.ioc_success = (first = "ok"),
                        !.orders = Append(@, HedgeOrder("first", cfg.filled, s1,
                                                        first = "ok", h))]
        h2 == IF first = "does not cross the book"
              THEN [h1 EXCEPT !.slip_try = 2 * s1, !.ioc_success = (second = "ok"),
                              !.orders = Append(@, HedgeOrder("doubled", cfg.filled,
                                                              2 * s1, second = "ok", h1))]
              ELSE h1
        answer == IF first = "does not cross the book" THEN second ELSE first
        h3 == IF answer = "1140" /\ cfg.secondary_exchange = "extended"
                 /\ reduced_amount > 0
              THEN [h2 EXCEPT !.ioc_success = third_ok,
                              !.orders = Append(@, HedgeOrder("reduced", reduced_amount,
                                                              h2.slip_try, third_ok, h2))]
              ELSE h2
    IN  IF ~ref_ok THEN [h EXCEPT !.pc = "no_ref_secondary"]
        ELSE IF answer # "ok" /\ ~ExtendedAdapterBound(cfg)
        THEN [h2 EXCEPT !.pc = "unbound_local"]
        ELSE [h3 EXCEPT !.hedged_amount = seen,
                        !.residual_unhedged = Max2(0, cfg.filled - seen),
                        !.pc = "retry"]

\* one pass of the residual-retry loop
HedgeRetry(cfg, h, ref_ok, retry_ok, seen) ==
    LET slip == RetrySlip(cfg, h.slip_try)
        h1 == [h EXCEPT !.retry_idx = @ + 1]
        tried == [h1 EXCEPT !.slip_try = slip,
                            !.orders = Append(@, HedgeOrder("retry", h.residual_unhedged,
                                                            slip, retry_ok, h))]
    IN  IF ~ref_ok THEN [h1 EXCEPT !.pc = "decide"]
        ELSE IF ~retry_ok THEN [tried EXCEPT !.ioc_success = FALSE, !.pc = "decide"]
        ELSE [tried EXCEPT !.hedged_amount = seen,
                            !.residual_unhedged = Max2(0, cfg.filled - seen)]

\* main() reaches the hedge with `filled` lots of the chunk on the primary
HedgeBegin ==
    /\ hedge.pc = "idle"
    /\ hedge' = [NoHedge EXCEPT !.pc = "first"]
    /\ UNCHANGED hedgeCfg
    /\ UNCHANGED notHedge

HedgeFirstOrders ==
    /\ hedge.pc = "first"
    /\ \E ref_ok \in BOOLEAN, first \in FirstAnswers,
          second \in FirstAnswers \ {"does not cross the book"},
          parsed \in Parsed1140, third_ok \in BOOLEAN, seen \in SeenAmounts(hedgeCfg) :
            hedge' = HedgeFirst(hedgeCfg, hedge, ref_ok, first, second,
                                ReducedAmount(hedgeCfg.filled, parsed), third_ok, seen)
    /\ UNCHANGED hedgeCfg
    /\ UNCHANGED notHedge

HedgeRetryPass ==
    /\ hedge.pc = "retry"
    /\ IF hedge.ioc_success /\ hedge.residual_unhedged > 0
          /\ hedge.retry_idx < HedgeRetryCount(hedgeCfg)
       THEN \E ref_ok \in BOOLEAN, retry_ok \in BOOLEAN, seen \in SeenAmounts(hedgeCfg) :
                hedge' = HedgeRetry(hedgeCfg, hedge, ref_ok, retry_ok, seen)
       ELSE hedge' = [hedge EXCEPT !.pc = "decide"]
    /\ UNCHANGED hedgeCfg
    /\ UNCHANGED notHedge

----------------------------------------------------------------------------
(* controller/scripts/enter_delta_neutral.py: the close sizing of a pass,   *)
(* over more sizes, positions and prices than the protocol runs above use.  *)
(* The notional and the prices below divide without remainder.              *)

MaxCloseLots == 6

CloseInputs ==
    [size : 1..3, primary_pos_curr : -MaxCloseLots..MaxCloseLots,
     secondary_pos_curr : {-2, 0, 2}, close_min_notional : {2},
     ref_primary : {1, 2}, ref_secondary : {0, 1, 2}]

IdleCloseInput == CHOOSE c \in CloseInputs : TRUE

NotSized == [outcome |-> "none", chunk |-> 0]

\* the close branch of the sizing: SystemExit below the minimum, no order
\* for an empty chunk, else the chunk that is placed
CloseSizing(in) ==
    LET basis == CloseBasis(in.primary_pos_curr, in.secondary_pos_curr)
        min_close_amount == MinCloseAmount(in.close_min_notional, in.ref_primary,
                                           in.ref_secondary)
        amount == CloseChunk(in.size, basis, min_close_amount)
    IN  IF basis < min_close_amount THEN [outcome |-> "below_min_close", chunk |-> 0]
        ELSE IF amount <= 0 THEN [outcome |-> "no_order", chunk |-> amount]
        ELSE [outcome |-> "place", chunk |-> amount]

CloseSize ==
    /\ closeOut = NotSized
    /\ closeOut' = CloseSizing(closeIn)
    /\ UNCHANGED closeIn
    /\ UNCHANGED notClose

----------------------------------------------------------------------------
(* controller/scripts/enter_delta_neutral.py: a close-mode run, pass after   *)
(* pass, over venues that answer every call, execute every order they accept *)
(* and reject a reduce-only order that has nothing to reduce.  Reference     *)
(* prices are 1, so amounts and notionals coincide.                          *)

CloseRunLots == 2

NoCloseRun ==
    [pc |-> "idle", size |-> 1, close_min_notional |-> 1, primary_pos |-> 0,
     secondary_pos |-> 0, side_primary |-> "buy", chunk |-> 0, primary_open |-> 0,
     primary_pos_curr |-> 0, filled |-> 0]

\* the runs: every starting pair of positions, a flat primary with a non-flat
\* secondary included
CloseRuns ==
    {[NoCloseRun EXCEPT !.size = sz, !.close_min_notional = mn,
                        !.primary_pos = p, !.secondary_pos = q] :
        sz \in 1..CloseRunLots, mn \in 1..CloseRunLots,
        p \in -CloseRunLots..CloseRunLots, q \in -CloseRunLots..CloseRunLots}

\* main() enters the chunk loop
CloseRunStart ==
    /\ closeRun.pc = "idle"
    /\ closeRun' = [closeRun EXCEPT !.pc = "loop_head"]
    /\ UNCHANGED notCloseRun

\* head of the chunk loop: positions, the flat test, the side of the pass
CloseRunLoopHead ==
    /\ closeRun.pc = "loop_head"
    /\ closeRun' =
          IF closeRun.primary_pos = 0 /\ closeRun.secondary_pos = 0
          THEN [closeRun EXCEPT !.pc = "flat"]
          ELSE [closeRun EXCEPT
                  !.pc = "place",
                  !.primary_pos_curr = closeRun.primary_pos,
                  !.filled = 0,
                  !.side_primary = SidePrimary([action |-> "close"], closeRun.primary_pos,
                                               closeRun.secondary_pos)]
    /\ UNCHANGED notCloseRun

\* the offsets loop of the pass: the sizing, then the reduce-only maker order
\* at each queued offset; when the venue rejects it at every offset,
\* chosen_limit stays None and main sleeps and continues with the next pass
CloseRunPlace ==
    /\ closeRun.pc = "place"
    /\ LET sized == CloseSizing([size |-> closeRun.size,
                                 primary_pos_curr |-> closeRun.primary_pos_curr,
                                 secondary_pos_curr |-> closeRun.secondary_pos,
                                 close_min_notional |-> closeRun.close_min_notional,
                                 ref_primary |-> 1, ref_secondary |-> 1])
           room == ReduceRoom(closeRun.side_primary, closeRun.primary_pos)
       IN  closeRun' =
             IF sized.outcome = "below_min_close"
             THEN [closeRun EXCEPT !.pc = "error"]
             ELSE IF sized.outcome = "no_order"
             THEN [closeRun EXCEPT !.pc = "wait_fill", !.chunk = sized.chunk]
             ELSE IF Executable(closeRun.side_primary, sized.chunk,
                                closeRun.primary_pos, TRUE) < sized.chunk
             THEN [closeRun EXCEPT !.pc = "loop_head"]
             ELSE [closeRun EXCEPT !.pc = "wait_fill", !.chunk = sized.chunk,
                                   !.primary_open = sized.chunk]
    /\ UNCHANGED notCloseRun

\* the primary venue executes part of the resting order
CloseRunFill ==
    /\ closeRun.pc = "wait_fill"
    /\ closeRun.primary_open > 0
    /\ \E k \in 1..closeRun.primary_open :
          closeRun' = [closeRun EXCEPT
                         !.primary_open = @ - k,
                         !.primary_pos = @ + Signed(closeRun.side_primary, k)]
    /\ UNCHANGED notCloseRun

\* wait_fill: one poll; it returns once the chunk is filled
CloseRunWait ==
    /\ closeRun.pc = "wait_fill"
    /\ LET filled == filled_delta(closeRun.side_primary, closeRun.primary_pos_curr,
                                  closeRun.chunk, closeRun.primary_pos)
       IN  /\ FillReached(filled, closeRun.chunk)
           /\ closeRun' = [closeRun EXCEPT !.pc = "hedge", !.filled = filled]
    /\ UNCHANGED notCloseRun

\* the reduce-only taker order on the secondary venue and its confirmation:
\* a full hedge ends the pass; anything less leads to the unwind, an order of
\* the opposite side on the primary venue for the unhedged residual, placed
\* with reduce_only = (action == "open") = False and executed by the venue,
\* and then to SystemExit
CloseRunHedge ==
    /\ closeRun.pc = "hedge"
    /\ LET side_second == OppositeSide(closeRun.side_primary)
           hedged == Executable(side_second, closeRun.filled, closeRun.secondary_pos, TRUE)
           residual_unhedged == Max2(0, closeRun.filled - hedged)
           unwind_side == OppositeSide(closeRun.side_primary)
           unwind_amount == IF residual_unhedged > 0 THEN residual_unhedged
                            ELSE closeRun.filled
       IN  closeRun' =
             IF hedged >= closeRun.filled
             THEN [closeRun EXCEPT !.pc = "loop_head",
                                   !.secondary_pos = @ + Signed(side_second, hedged)]
             ELSE [closeRun EXCEPT !.pc = "error",
                                   !.secondary_pos = @ + Signed(side_second, hedged),
                                   !.primary_pos = @ + Signed(unwind_side, unwind_amount)]
    /\ UNCHANGED notCloseRun

----------------------------------------------------------------------------
(* controller/nado_adapter.py, extended_adapter.py, variational_adapter.py: *)
(* place_limit_order                                                        *)

AdapterNames == {"nado", "extended", "variational"}
OrderPrices == {-1, 0, 1}
OrderAmounts == {-1, 0, 1}

\* one call: the adapter, whether initialize() has run, whether the
\* instrument is a key of its instrument_map, and the arguments
OrderCalls ==
    [adapter : AdapterNames, initialized : BOOLEAN, known : BOOLEAN,
     price : OrderPrices, amount : OrderAmounts, post_only : BOOLEAN]

\* what the venue's SDK does with the calls the adapter makes
VenueReplies ==
    [market_found : BOOLEAN, accepted : BOOLEAN, visible : BOOLEAN,
     min_qty_ok : BOOLEAN, has_rfq_id : BOOLEAN]

NotCalled == [raised |-> FALSE, success |-> FALSE, error |-> "not called"]
IdleOrder == CHOOSE o \in OrderCalls : TRUE

\* PlacedOrderResult(id, success=True)
OrderPlaced == [raised |-> FALSE, success |-> TRUE, error |-> ""]
\* PlacedOrderResult(id="", success=False, error=...)
OrderFailed(error) == [raised |-> FALSE, success |-> FALSE, error |-> error]
\* the exception leaves place_limit_order
OrderRaised(exc) == [raised |-> TRUE, success |-> FALSE, error |-> exc]

\* NadoAdapter.place_limit_order: _to_product_id runs before the try block
NadoPlaceLimitOrder(o, reply) ==
    IF ~o.known THEN OrderRaised("ValueError")
    ELSE IF o.price <= 0 THEN OrderFailed("price")
    ELSE IF o.amount <= 0 THEN OrderFailed("amount")
    ELSE IF ~o.initialized THEN OrderFailed("not initialized")
    ELSE IF ~reply.accepted THEN OrderFailed("venue")
    ELSE OrderPlaced

\* ExtendedAdapter.place_limit_order: _to_market_name runs before the try block
ExtendedPlaceLimitOrder(o, reply) ==
    IF ~o.known THEN OrderRaised("ValueError")
    ELSE IF ~o.initialized THEN OrderFailed("not initialized")
    ELSE IF ~reply.market_found THEN OrderFailed("market not found")
    ELSE IF ~reply.accepted THEN OrderFailed("venue")
    ELSE IF o.post_only /\ ~reply.visible THEN OrderFailed("not visible")
    ELSE OrderPlaced

\* VariationalAdapter.place_limit_order: the whole body is inside the try block
VariationalPlaceLimitOrder(o, reply) ==
    IF o.price <= 0 THEN OrderFailed("price")
    ELSE IF o.amount <= 0 THEN OrderFailed("amount")
    ELSE IF ~o.known THEN OrderFailed("ValueError")
    ELSE IF ~o.initialized THEN OrderFailed("not initialized")
    ELSE IF ~reply.min_qty_ok THEN OrderFailed("below minimum size")
    ELSE IF ~reply.accepted THEN OrderFailed("venue")
    ELSE IF ~reply.has_rfq_id THEN OrderFailed("unexpected order response")
    ELSE OrderPlaced

place_limit_order(o, reply) ==
    IF o.adapter = "nado" THEN NadoPlaceLimitOrder(o, reply)
    ELSE IF o.adapter = "extended" THEN ExtendedPlaceLimitOrder(o, reply)
    ELSE VariationalPlaceLimitOrder(o, reply)

\* one call of place_limit_order
PlaceLimitOrder ==
    /\ placed = NotCalled
    /\ \E reply \in VenueReplies : placed' = place_limit_order(order, reply)
    /\ UNCHANGED order
    /\ UNCHANGED notAdapters

----------------------------------------------------------------------------
(* Specifications *)

\* the variables of a component while another one runs
IdleConfig == CHOOSE c \in EngineConfigs : TRUE
EntryIdleConfig == CHOOSE c \in EntryConfigs : TRUE
EntryIdleVenue ==
    [primary_pos |-> 0, secondary_pos |-> 0, secondary_seen |-> 0, primary_open |-> 0]

InitSpecGate ==
    /\ environ \in EnvValues
    /\ gateLive = FALSE
    /\ gateResult = "none"
    /\ gateEnv = Unset
    /\ engCfg = IdleConfig
    /\ snapshot = EmptySnapshot
    /\ decision = EmptyDecision
    /\ firstSnapshot = EmptySnapshot
    /\ firstDecision = EmptyDecision
    /\ engCalls = 0
    /\ argLive = FALSE
    /\ ctlPc = "start"
    /\ ctlExit = -1
    /\ ctlRunning = FALSE
    /\ ctlStopAsked = FALSE
    /\ ctlCycle = 0
    /\ ctlInst = 1
    /\ ctlPending = <<>>
    /\ ctlPlaced = 0
    /\ entryCfg = EntryIdleConfig
    /\ entryPc = "start"
    /\ entryExit = ""
    /\ shutdown_event = FALSE
    /\ venue = EntryIdleVenue
    /\ chunk = NoChunk
    /\ total_filled = 0
    /\ entryPlaced = FALSE
    /\ entryChunks = 0
    /\ order = IdleOrder
    /\ placed = NotCalled
    /\ reads = IdleReads
    /\ collected = NotCollected
    /\ ctlAdapters = <<>>
    /\ ctlCloseLog = <<>>
    /\ rawConfig = IdleRawConfig
    /\ loaded = NotLoaded
    /\ offsetCfg = IdleOffsetConfig
    /\ offsets = NoOffsets
    /\ waitCfg = IdleWaitConfig
    /\ wait = NoWait
    /\ hedgeCfg = IdleHedgeConfig
    /\ hedge = NoHedge
    /\ closeIn = IdleCloseInput
    /\ closeOut = NotSized
    /\ ioCfg = IdleIoConfig
    /\ io = NotRead
    /\ book = NoBook
    /\ closeRun = NoCloseRun
    /\ objects = NoObjects

NextGate == SetEnv \/ CallGate
SpecGate == InitSpecGate /\ [][NextGate]_vars

InitSpecEngine ==
    /\ engCfg \in EngineConfigs
    /\ snapshot \in Snapshots
    /\ decision = EmptyDecision
    /\ firstSnapshot = EmptySnapshot
    /\ firstDecision = EmptyDecision
    /\ engCalls = 0
    /\ environ = Unset
    /\ gateLive = FALSE
    /\ gateResult = "none"
    /\ gateEnv = Unset
    /\ argLive = FALSE
    /\ ctlPc = "start"
    /\ ctlExit = -1
    /\ ctlRunning = FALSE
    /\ ctlStopAsked = FALSE
    /\ ctlCycle = 0
    /\ ctlInst = 1
    /\ ctlPending = <<>>
    /\ ctlPlaced = 0
    /\ entryCfg = EntryIdleConfig
    /\ entryPc = "start"
    /\ entryExit = ""
    /\ shutdown_event = FALSE
    /\ venue = EntryIdleVenue
    /\ chunk = NoChunk
    /\ total_filled = 0
    /\ entryPlaced = FALSE
    /\ entryChunks = 0
    /\ order = IdleOrder
    /\ placed = NotCalled
    /\ reads = IdleReads
    /\ collected = NotCollected
    /\ ctlAdapters = <<>>
    /\ ctlCloseLog = <<>>
    /\ rawConfig = IdleRawConfig
    /\ loaded = NotLoaded
    /\ offsetCfg = IdleOffsetConfig
    /\ offsets = NoOffsets
    /\ waitCfg = IdleWaitConfig
    /\ wait = NoWait
    /\ hedgeCfg = IdleHedgeConfig
    /\ hedge = NoHedge
    /\ closeIn = IdleCloseInput
    /\ closeOut = NotSized
    /\ ioCfg = IdleIoConfig
    /\ io = NotRead
    /\ book = NoBook
    /\ closeRun = NoCloseRun
    /\ objects = NoObjects

NextEngine == AnalyzeCall
SpecEngine == InitSpecEngine /\ [][NextEngine]_vars

InitSpecEngineCalls ==
    /\ engCfg \in CallConfigs
    /\ snapshot = EmptySnapshot
    /\ decision = EmptyDecision
    /\ firstSnapshot = EmptySnapshot
    /\ firstDecision = EmptyDecision
    /\ engCalls = 0
    /\ environ = Unset
    /\ gateLive = FALSE
    /\ gateResult = "none"
    /\ gateEnv = Unset
    /\ argLive = FALSE
    /\ ctlPc = "start"
    /\ ctlExit = -1
    /\ ctlRunning = FALSE
    /\ ctlStopAsked = FALSE
    /\ ctlCycle = 0
    /\ ctlInst = 1
    /\ ctlPending = <<>>
    /\ ctlPlaced = 0
    /\ entryCfg = EntryIdleConfig
    /\ entryPc = "start"
    /\ entryExit = ""
    /\ shutdown_event = FALSE
    /\ venue = EntryIdleVenue
    /\ chunk = NoChunk
    /\ total_filled = 0
    /\ entryPlaced = FALSE
    /\ entryChunks = 0
    /\ order = IdleOrder
    /\ placed = NotCalled
    /\ reads = IdleReads
    /\ collected = NotCollected
    /\ ctlAdapters = <<>>
    /\ ctlCloseLog = <<>>
    /\ rawConfig = IdleRawConfig
    /\ loaded = NotLoaded
    /\ offsetCfg = IdleOffsetConfig
    /\ offsets = NoOffsets
    /\ waitCfg = IdleWaitConfig
    /\ wait = NoWait
    /\ hedgeCfg = IdleHedgeConfig
    /\ hedge = NoHedge
    /\ closeIn = IdleCloseInput
    /\ closeOut = NotSized
    /\ ioCfg = IdleIoConfig
    /\ io = NotRead
    /\ book = NoBook
    /\ closeRun = NoCloseRun
    /\ objects = NewEngine(engCfg)

NextEngineCalls == AnalyzeNewSnapshot \/ AnalyzeSameSnapshot
SpecEngineCalls == InitSpecEngineCalls /\ [][NextEngineCalls]_vars

InitSpecController ==
    /\ environ \in EnvSamples
    /\ gateLive = FALSE
    /\ gateResult = "none"
    /\ gateEnv = Unset
    /\ engCfg \in ControllerConfigs
    /\ snapshot = EmptySnapshot
    /\ decision = EmptyDecision
    /\ firstSnapshot = EmptySnapshot
    /\ firstDecision = EmptyDecision
    /\ engCalls = 0
    /\ argLive \in BOOLEAN
    /\ ctlPc = "start"
    /\ ctlExit = -1
    /\ ctlRunning = FALSE
    /\ ctlStopAsked = FALSE
    /\ ctlCycle = 0
    /\ ctlInst = 1
    /\ ctlPending = <<>>
    /\ ctlPlaced = 0
    /\ entryCfg = EntryIdleConfig
    /\ entryPc = "start"
    /\ entryExit = ""
    /\ shutdown_event = FALSE
    /\ venue = EntryIdleVenue
    /\ chunk = NoChunk
    /\ total_filled = 0
    /\ entryPlaced = FALSE
    /\ entryChunks = 0
    /\ order = IdleOrder
    /\ placed = NotCalled
    /\ reads = IdleReads
    /\ collected = NotCollected
    /\ ctlAdapters = <<>>
    /\ ctlCloseLog = <<>>
    /\ rawConfig = IdleRawConfig
    /\ loaded = NotLoaded
    /\ offsetCfg = IdleOffsetConfig
    /\ offsets = NoOffsets
    /\ waitCfg = IdleWaitConfig
    /\ wait = NoWait
    /\ hedgeCfg = IdleHedgeConfig
    /\ hedge = NoHedge
    /\ closeIn = IdleCloseInput
    /\ closeOut = NotSized
    /\ ioCfg = IdleIoConfig
    /\ io = NotRead
    /\ book = NoBook
    /\ closeRun = NoCloseRun
    /\ objects = NoObjects

NextController ==
    \/ CtlMain
    \/ CtlInitialize
    \/ CtlRunStart
    \/ CtlStop
    \/ CtlLoopHead
    \/ CtlCollectAnalyze
    \/ CtlExecute
    \/ CtlSleep
    \/ CtlClose
    \/ CtlMainClose
SpecController == InitSpecController /\ [][NextController]_vars

\* every adapter call and every sleep of the controller returns
ControllerFairness ==
    /\ WF_vars(CtlLoopHead)
    /\ WF_vars(CtlCollectAnalyze)
    /\ WF_vars(CtlExecute)
    /\ WF_vars(CtlSleep)
    /\ WF_vars(CtlClose)
    /\ WF_vars(CtlMainClose)
SpecControllerLive == SpecController /\ ControllerFairness

InitSpecEntry ==
    /\ environ \in {Unset, <<"1">>}
    /\ gateLive = FALSE
    /\ gateResult = "none"
    /\ gateEnv = Unset
    /\ engCfg = IdleConfig
    /\ snapshot = EmptySnapshot
    /\ decision = EmptyDecision
    /\ firstSnapshot = EmptySnapshot
    /\ firstDecision = EmptyDecision
    /\ engCalls = 0
    /\ argLive \in BOOLEAN
    /\ ctlPc = "start"
    /\ ctlExit = -1
    /\ ctlRunning = FALSE
    /\ ctlStopAsked = FALSE
    /\ ctlCycle = 0
    /\ ctlInst = 1
    /\ ctlPending = <<>>
    /\ ctlPlaced = 0
    /\ entryCfg \in EntryConfigs
    /\ entryPc = "start"
    /\ entryExit = ""
    /\ shutdown_event = FALSE
    /\ venue \in StartVenues
    /\ EntryStarts(entryCfg, venue)
    /\ chunk = NoChunk
    /\ total_filled = 0
    /\ entryPlaced = FALSE
    /\ entryChunks = 0
    /\ order = IdleOrder
    /\ placed = NotCalled
    /\ reads = IdleReads
    /\ collected = NotCollected
    /\ ctlAdapters = <<>>
    /\ ctlCloseLog = <<>>
    /\ rawConfig = IdleRawConfig
    /\ loaded = NotLoaded
    /\ offsetCfg = IdleOffsetConfig
    /\ offsets = NoOffsets
    /\ waitCfg = IdleWaitConfig
    /\ wait = NoWait
    /\ hedgeCfg = IdleHedgeConfig
    /\ hedge = NoHedge
    /\ closeIn = IdleCloseInput
    /\ closeOut = NotSized
    /\ ioCfg = IdleIoConfig
    /\ io = NotRead
    /\ book = NoBook
    /\ closeRun = NoCloseRun
    /\ objects = NoObjects

NextEntry ==
    \/ EntryStart
    \/ EntrySetup
    \/ RequestShutdown
    \/ EntryLoopHead
    \/ EntryPlace
    \/ PrimaryFill
    \/ PrimaryOrderDropped
    \/ SecondaryReport
    \/ EntryWaitPoll
    \/ EntryWaitCancel
    \/ EntryWaitReprice
    \/ EntryHedge
    \/ EntryConfirm
    \/ EntryRetry
    \/ EntryRetryConfirm
    \/ EntryDecide
    \/ EntryFinish
    \/ EntryCleanup
SpecEntry == InitSpecEntry /\ [][NextEntry]_vars

\* one open run and one close run, with venues that report any position
ReportConfigs ==
    {c \in EntryConfigs :
        /\ c.primary_exchange = "extended" /\ c.secondary_exchange = "variational"
        /\ c.open_direction = "long" /\ c.size = EntryLots /\ ~c.has_target}

InitSpecReports ==
    /\ environ = <<"1">>
    /\ gateLive = FALSE
    /\ gateResult = "none"
    /\ gateEnv = Unset
    /\ engCfg = IdleConfig
    /\ snapshot = EmptySnapshot
    /\ decision = EmptyDecision
    /\ firstSnapshot = EmptySnapshot
    /\ firstDecision = EmptyDecision
    /\ engCalls = 0
    /\ argLive = TRUE
    /\ ctlPc = "start"
    /\ ctlExit = -1
    /\ ctlRunning = FALSE
    /\ ctlStopAsked = FALSE
    /\ ctlCycle = 0
    /\ ctlInst = 1
    /\ ctlPending = <<>>
    /\ ctlPlaced = 0
    /\ entryCfg \in ReportConfigs
    /\ entryPc = "start"
    /\ entryExit = ""
    /\ shutdown_event = FALSE
    /\ venue \in StartVenues
    /\ EntryStarts(entryCfg, venue)
    /\ chunk = NoChunk
    /\ total_filled = 0
    /\ entryPlaced = FALSE
    /\ entryChunks = 0
    /\ order = IdleOrder
    /\ placed = NotCalled
    /\ reads = IdleReads
    /\ collected = NotCollected
    /\ ctlAdapters = <<>>
    /\ ctlCloseLog = <<>>
    /\ rawConfig = IdleRawConfig
    /\ loaded = NotLoaded
    /\ offsetCfg = IdleOffsetConfig
    /\ offsets = NoOffsets
    /\ waitCfg = IdleWaitConfig
    /\ wait = NoWait
    /\ hedgeCfg = IdleHedgeConfig
    /\ hedge = NoHedge
    /\ closeIn = IdleCloseInput
    /\ closeOut = NotSized
    /\ ioCfg = IdleIoConfig
    /\ io = NotRead
    /\ book = NoBook
    /\ closeRun = NoCloseRun
    /\ objects = NoObjects

NextReports ==
    \/ EntryStart
    \/ EntrySetup
    \/ RequestShutdown
    \/ EntryLoopHead
    \/ EntryPlace
    \/ PrimaryOrderDropped
    \/ PositionsMove
    \/ EntryWaitPoll
    \/ EntryWaitCancel
    \/ EntryWaitReprice
    \/ EntryHedge
    \/ EntryConfirm
    \/ EntryRetry
    \/ EntryRetryConfirm
    \/ EntryDecide
    \/ EntryFinish
    \/ EntryCleanup
SpecReports == InitSpecReports /\ [][NextReports]_vars

\* open runs to a target, long on the primary venue, from flat venues
FlatConfigs ==
    {c \in EntryConfigs : c.open_direction = "long" /\ c.has_target /\ c.ans = "n"}

InitSpecFlat ==
    /\ environ = <<"1">>
    /\ gateLive = FALSE
    /\ gateResult = "none"
    /\ gateEnv = Unset
    /\ engCfg = IdleConfig
    /\ snapshot = EmptySnapshot
    /\ decision = EmptyDecision
    /\ firstSnapshot = EmptySnapshot
    /\ firstDecision = EmptyDecision
    /\ engCalls = 0
    /\ argLive = TRUE
    /\ ctlPc = "start"
    /\ ctlExit = -1
    /\ ctlRunning = FALSE
    /\ ctlStopAsked = FALSE
    /\ ctlCycle = 0
    /\ ctlInst = 1
    /\ ctlPending = <<>>
    /\ ctlPlaced = 0
    /\ entryCfg \in FlatConfigs
    /\ entryPc = "start"
    /\ entryExit = ""
    /\ shutdown_event = FALSE
    /\ venue = EntryIdleVenue
    /\ chunk = NoChunk
    /\ total_filled = 0
    /\ entryPlaced = FALSE
    /\ entryChunks = 0
    /\ order = IdleOrder
    /\ placed = NotCalled
    /\ reads = IdleReads
    /\ collected = NotCollected
    /\ ctlAdapters = <<>>
    /\ ctlCloseLog = <<>>
    /\ rawConfig = IdleRawConfig
    /\ loaded = NotLoaded
    /\ offsetCfg = IdleOffsetConfig
    /\ offsets = NoOffsets
    /\ waitCfg = IdleWaitConfig
    /\ wait = NoWait
    /\ hedgeCfg = IdleHedgeConfig
    /\ hedge = NoHedge
    /\ closeIn = IdleCloseInput
    /\ closeOut = NotSized
    /\ ioCfg = IdleIoConfig
    /\ io = NotRead
    /\ book = NoBook
    /\ closeRun = NoCloseRun
    /\ objects = NoObjects

SpecFlat == InitSpecFlat /\ [][NextEntry]_vars

InitSpecAdapters ==
    /\ environ = <<"1">>
    /\ gateLive = FALSE
    /\ gateResult = "none"
    /\ gateEnv = Unset
    /\ engCfg = IdleConfig
    /\ snapshot = EmptySnapshot
    /\ decision = EmptyDecision
    /\ firstSnapshot = EmptySnapshot
    /\ firstDecision = EmptyDecision
    /\ engCalls = 0
    /\ argLive = TRUE
    /\ ctlPc = "start"
    /\ ctlExit = -1
    /\ ctlRunning = FALSE
    /\ ctlStopAsked = FALSE
    /\ ctlCycle = 0
    /\ ctlInst = 1
    /\ ctlPending = <<>>
    /\ ctlPlaced = 0
    /\ entryCfg = EntryIdleConfig
    /\ entryPc = "start"
    /\ entryExit = ""
    /\ shutdown_event = FALSE
    /\ venue = EntryIdleVenue
    /\ chunk = NoChunk
    /\ total_filled = 0
    /\ entryPlaced = FALSE
    /\ entryChunks = 0
    /\ order \in OrderCalls
    /\ placed = NotCalled
    /\ reads = IdleReads
    /\ collected = NotCollected
    /\ ctlAdapters = <<>>
    /\ ctlCloseLog = <<>>
    /\ rawConfig = IdleRawConfig
    /\ loaded = NotLoaded
    /\ offsetCfg = IdleOffsetConfig
    /\ offsets = NoOffsets
    /\ waitCfg = IdleWaitConfig
    /\ wait = NoWait
    /\ hedgeCfg = IdleHedgeConfig
    /\ hedge = NoHedge
    /\ closeIn = IdleCloseInput
    /\ closeOut = NotSized
    /\ ioCfg = IdleIoConfig
    /\ io = NotRead
    /\ book = NoBook
    /\ closeRun = NoCloseRun
    /\ objects = NoObjects

NextAdapters ==
    \/ PlaceLimitOrder
SpecAdapters == InitSpecAdapters /\ [][NextAdapters]_vars

InitSpecCollect ==
    /\ environ = <<"1">>
    /\ gateLive = FALSE
    /\ gateResult = "none"
    /\ gateEnv = Unset
    /\ engCfg \in ControllerConfigs
    /\ snapshot = EmptySnapshot
    /\ decision = EmptyDecision
    /\ firstSnapshot = EmptySnapshot
    /\ firstDecision = EmptyDecision
    /\ engCalls = 0
    /\ argLive = TRUE
    /\ ctlPc = "start"
    /\ ctlExit = -1
    /\ ctlRunning = FALSE
    /\ ctlStopAsked = FALSE
    /\ ctlCycle = 0
    /\ ctlInst = 1
    /\ ctlPending = <<>>
    /\ ctlPlaced = 0
    /\ entryCfg = EntryIdleConfig
    /\ entryPc = "start"
    /\ entryExit = ""
    /\ shutdown_event = FALSE
    /\ venue = EntryIdleVenue
    /\ chunk = NoChunk
    /\ total_filled = 0
    /\ entryPlaced = FALSE
    /\ entryChunks = 0
    /\ order = IdleOrder
    /\ placed = NotCalled
    /\ reads \in CycleReads
    /\ collected = NotCollected
    /\ ctlAdapters = <<>>
    /\ ctlCloseLog = <<>>
    /\ rawConfig = IdleRawConfig
    /\ loaded = NotLoaded
    /\ offsetCfg = IdleOffsetConfig
    /\ offsets = NoOffsets
    /\ waitCfg = IdleWaitConfig
    /\ wait = NoWait
    /\ hedgeCfg = IdleHedgeConfig
    /\ hedge = NoHedge
    /\ closeIn = IdleCloseInput
    /\ closeOut = NotSized
    /\ ioCfg = IdleIoConfig
    /\ io = NotRead
    /\ book = NoBook
    /\ closeRun = NoCloseRun
    /\ objects = NoObjects

NextCollect ==
    \/ CollectAndAnalyze
SpecCollect == InitSpecCollect /\ [][NextCollect]_vars

InitSpecConfig ==
    /\ environ = <<"1">>
    /\ gateLive = FALSE
    /\ gateResult = "none"
    /\ gateEnv = Unset
    /\ engCfg = IdleConfig
    /\ snapshot = EmptySnapshot
    /\ decision = EmptyDecision
    /\ firstSnapshot = EmptySnapshot
    /\ firstDecision = EmptyDecision
    /\ engCalls = 0
    /\ argLive = TRUE
    /\ ctlPc = "start"
    /\ ctlExit = -1
    /\ ctlRunning = FALSE
    /\ ctlStopAsked = FALSE
    /\ ctlCycle = 0
    /\ ctlInst = 1
    /\ ctlPending = <<>>
    /\ ctlPlaced = 0
    /\ entryCfg = EntryIdleConfig
    /\ entryPc = "start"
    /\ entryExit = ""
    /\ shutdown_event = FALSE
    /\ venue = EntryIdleVenue
    /\ chunk = NoChunk
    /\ total_filled = 0
    /\ entryPlaced = FALSE
    /\ entryChunks = 0
    /\ order = IdleOrder
    /\ placed = NotCalled
    /\ reads = IdleReads
    /\ collected = NotCollected
    /\ ctlAdapters = <<>>
    /\ ctlCloseLog = <<>>
    /\ rawConfig \in RawConfigs
    /\ loaded = NotLoaded
    /\ offsetCfg = IdleOffsetConfig
    /\ offsets = NoOffsets
    /\ waitCfg = IdleWaitConfig
    /\ wait = NoWait
    /\ hedgeCfg = IdleHedgeConfig
    /\ hedge = NoHedge
    /\ closeIn = IdleCloseInput
    /\ closeOut = NotSized
    /\ ioCfg = IdleIoConfig
    /\ io = NotRead
    /\ book = NoBook
    /\ closeRun = NoCloseRun
    /\ objects = NoObjects

NextConfig ==
    \/ CtlLoadConfig
SpecConfig == InitSpecConfig /\ [][NextConfig]_vars

InitSpecOffsets ==
    /\ environ = <<"1">>
    /\ gateLive = FALSE
    /\ gateResult = "none"
    /\ gateEnv = Unset
    /\ engCfg = IdleConfig
    /\ snapshot = EmptySnapshot
    /\ decision = EmptyDecision
    /\ firstSnapshot = EmptySnapshot
    /\ firstDecision = EmptyDecision
    /\ engCalls = 0
    /\ argLive = TRUE
    /\ ctlPc = "start"
    /\ ctlExit = -1
    /\ ctlRunning = FALSE
    /\ ctlStopAsked = FALSE
    /\ ctlCycle = 0
    /\ ctlInst = 1
    /\ ctlPending = <<>>
    /\ ctlPlaced = 0
    /\ entryCfg = EntryIdleConfig
    /\ entryPc = "start"
    /\ entryExit = ""
    /\ shutdown_event = FALSE
    /\ venue = EntryIdleVenue
    /\ chunk = NoChunk
    /\ total_filled = 0
    /\ entryPlaced = FALSE
    /\ entryChunks = 0
    /\ order = IdleOrder
    /\ placed = NotCalled
    /\ reads = IdleReads
    /\ collected = NotCollected
    /\ ctlAdapters = <<>>
    /\ ctlCloseLog = <<>>
    /\ rawConfig = IdleRawConfig
    /\ loaded = NotLoaded
    /\ offsetCfg \in OffsetConfigs
    /\ offsets = NoOffsets
    /\ waitCfg = IdleWaitConfig
    /\ wait = NoWait
    /\ hedgeCfg = IdleHedgeConfig
    /\ hedge = NoHedge
    /\ closeIn = IdleCloseInput
    /\ closeOut = NotSized
    /\ ioCfg = IdleIoConfig
    /\ io = NotRead
    /\ book = NoBook
    /\ closeRun = NoCloseRun
    /\ objects = NoObjects

NextOffsets ==
    \/ OffsetsBegin
    \/ OffsetsTry
    \/ OffsetsExhausted
SpecOffsets == InitSpecOffsets /\ [][NextOffsets]_vars

InitSpecWait ==
    /\ environ = <<"1">>
    /\ gateLive = FALSE
    /\ gateResult = "none"
    /\ gateEnv = Unset
    /\ engCfg = IdleConfig
    /\ snapshot = EmptySnapshot
    /\ decision = EmptyDecision
    /\ firstSnapshot = EmptySnapshot
    /\ firstDecision = EmptyDecision
    /\ engCalls = 0
    /\ argLive = TRUE
    /\ ctlPc = "start"
    /\ ctlExit = -1
    /\ ctlRunning = FALSE
    /\ ctlStopAsked = FALSE
    /\ ctlCycle = 0
    /\ ctlInst = 1
    /\ ctlPending = <<>>
    /\ ctlPlaced = 0
    /\ entryCfg = EntryIdleConfig
    /\ entryPc = "start"
    /\ entryExit = ""
    /\ shutdown_event = FALSE
    /\ venue = EntryIdleVenue
    /\ chunk = NoChunk
    /\ total_filled = 0
    /\ entryPlaced = FALSE
    /\ entryChunks = 0
    /\ order = IdleOrder
    /\ placed = NotCalled
    /\ reads = IdleReads
    /\ collected = NotCollected
    /\ ctlAdapters = <<>>
    /\ ctlCloseLog = <<>>
    /\ rawConfig = IdleRawConfig
    /\ loaded = NotLoaded
    /\ offsetCfg = IdleOffsetConfig
    /\ offsets = NoOffsets
    /\ waitCfg \in WaitConfigs
    /\ wait = NoWait
    /\ hedgeCfg = IdleHedgeConfig
    /\ hedge = NoHedge
    /\ closeIn = IdleCloseInput
    /\ closeOut = NotSized
    /\ ioCfg = IdleIoConfig
    /\ io = NotRead
    /\ book = NoBook
    /\ closeRun = NoCloseRun
    /\ objects = NoObjects

NextWait ==
    \/ WaitFillCall
    \/ WaitFillPoll
SpecWait == InitSpecWait /\ [][NextWait]_vars

InitSpecHedge ==
    /\ environ = <<"1">>
    /\ gateLive = FALSE
    /\ gateResult = "none"
    /\ gateEnv = Unset
    /\ engCfg = IdleConfig
    /\ snapshot = EmptySnapshot
    /\ decision = EmptyDecision
    /\ firstSnapshot = EmptySnapshot
    /\ firstDecision = EmptyDecision
    /\ engCalls = 0
    /\ argLive = TRUE
    /\ ctlPc = "start"
    /\ ctlExit = -1
    /\ ctlRunning = FALSE
    /\ ctlStopAsked = FALSE
    /\ ctlCycle = 0
    /\ ctlInst = 1
    /\ ctlPending = <<>>
    /\ ctlPlaced = 0
    /\ entryCfg = EntryIdleConfig
    /\ entryPc = "start"
    /\ entryExit = ""
    /\ shutdown_event = FALSE
    /\ venue = EntryIdleVenue
    /\ chunk = NoChunk
    /\ total_filled = 0
    /\ entryPlaced = FALSE
    /\ entryChunks = 0
    /\ order = IdleOrder
    /\ placed = NotCalled
    /\ reads = IdleReads
    /\ collected = NotCollected
    /\ ctlAdapters = <<>>
    /\ ctlCloseLog = <<>>
    /\ rawConfig = IdleRawConfig
    /\ loaded = NotLoaded
    /\ offsetCfg = IdleOffsetConfig
    /\ offsets = NoOffsets
    /\ waitCfg = IdleWaitConfig
    /\ wait = NoWait
    /\ hedgeCfg \in HedgeConfigs
    /\ hedge = NoHedge
    /\ closeIn = IdleCloseInput
    /\ closeOut = NotSized
    /\ ioCfg = IdleIoConfig
    /\ io = NotRead
    /\ book = NoBook
    /\ closeRun = NoCloseRun
    /\ objects = NoObjects

NextHedge ==
    \/ HedgeBegin
    \/ HedgeFirstOrders
    \/ HedgeRetryPass
SpecHedge == InitSpecHedge /\ [][NextHedge]_vars

InitSpecClose ==
    /\ environ = <<"1">>
    /\ gateLive = FALSE
    /\ gateResult = "none"
    /\ gateEnv = Unset
    /\ engCfg = IdleConfig
    /\ snapshot = EmptySnapshot
    /\ decision = EmptyDecision
    /\ firstSnapshot = EmptySnapshot
    /\ firstDecision = EmptyDecision
    /\ engCalls = 0
    /\ argLive = TRUE
    /\ ctlPc = "start"
    /\ ctlExit = -1
    /\ ctlRunning = FALSE
    /\ ctlStopAsked = FALSE
    /\ ctlCycle = 0
    /\ ctlInst = 1
    /\ ctlPending = <<>>
    /\ ctlPlaced = 0
    /\ entryCfg = EntryIdleConfig
    /\ entryPc = "start"
    /\ entryExit = ""
    /\ shutdown_event = FALSE
    /\ venue = EntryIdleVenue
    /\ chunk = NoChunk
    /\ total_filled = 0
    /\ entryPlaced = FALSE
    /\ entryChunks = 0
    /\ order = IdleOrder
    /\ placed = NotCalled
    /\ reads = IdleReads
    /\ collected = NotCollected
    /\ ctlAdapters = <<>>
    /\ ctlCloseLog = <<>>
    /\ rawConfig = IdleRawConfig
    /\ loaded = NotLoaded
    /\ offsetCfg = IdleOffsetConfig
    /\ offsets = NoOffsets
    /\ waitCfg = IdleWaitConfig
    /\ wait = NoWait
    /\ hedgeCfg = IdleHedgeConfig
    /\ hedge = NoHedge
    /\ closeIn \in CloseInputs
    /\ closeOut = NotSized
    /\ ioCfg = IdleIoConfig
    /\ io = NotRead
    /\ book = NoBook
    /\ closeRun = NoCloseRun
    /\ objects = NoObjects

NextClose ==
    \/ CloseSize
SpecClose == InitSpecClose /\ [][NextClose]_vars

InitSpecIo ==
    /\ environ = <<"1">>
    /\ gateLive = FALSE
    /\ gateResult = "none"
    /\ gateEnv = Unset
    /\ engCfg = IdleConfig
    /\ snapshot = EmptySnapshot
    /\ decision = EmptyDecision
    /\ firstSnapshot = EmptySnapshot
    /\ firstDecision = EmptyDecision
    /\ engCalls = 0
    /\ argLive = TRUE
    /\ ctlPc = "start"
    /\ ctlExit = -1
    /\ ctlRunning = FALSE
    /\ ctlStopAsked = FALSE
    /\ ctlCycle = 0
    /\ ctlInst = 1
    /\ ctlPending = <<>>
    /\ ctlPlaced = 0
    /\ entryCfg = EntryIdleConfig
    /\ entryPc = "start"
    /\ entryExit = ""
    /\ shutdown_event = FALSE
    /\ venue = EntryIdleVenue
    /\ chunk = NoChunk
    /\ total_filled = 0
    /\ entryPlaced = FALSE
    /\ entryChunks = 0
    /\ order = IdleOrder
    /\ placed = NotCalled
    /\ reads = IdleReads
    /\ collected = NotCollected
    /\ ctlAdapters = <<>>
    /\ ctlCloseLog = <<>>
    /\ rawConfig = IdleRawConfig
    /\ loaded = NotLoaded
    /\ offsetCfg = IdleOffsetConfig
    /\ offsets = NoOffsets
    /\ waitCfg = IdleWaitConfig
    /\ wait = NoWait
    /\ hedgeCfg = IdleHedgeConfig
    /\ hedge = NoHedge
    /\ closeIn = IdleCloseInput
    /\ closeOut = NotSized
    /\ ioCfg \in IoConfigs
    /\ io = NotRead
    /\ book = NoBook
    /\ closeRun = NoCloseRun
    /\ objects = NoObjects

NextIo ==
    \/ IoBegin
    \/ IoRead
SpecIo == InitSpecIo /\ [][NextIo]_vars

InitSpecBook ==
    /\ environ = <<"1">>
    /\ gateLive = FALSE
    /\ gateResult = "none"
    /\ gateEnv = Unset
    /\ engCfg = IdleConfig
    /\ snapshot = EmptySnapshot
    /\ decision = EmptyDecision
    /\ firstSnapshot = EmptySnapshot
    /\ firstDecision = EmptyDecision
    /\ engCalls = 0
    /\ argLive = TRUE
    /\ ctlPc = "start"
    /\ ctlExit = -1
    /\ ctlRunning = FALSE
    /\ ctlStopAsked = FALSE
    /\ ctlCycle = 0
    /\ ctlInst = 1
    /\ ctlPending = <<>>
    /\ ctlPlaced = 0
    /\ entryCfg = EntryIdleConfig
    /\ entryPc = "start"
    /\ entryExit = ""
    /\ shutdown_event = FALSE
    /\ venue = EntryIdleVenue
    /\ chunk = NoChunk
    /\ total_filled = 0
    /\ entryPlaced = FALSE
    /\ entryChunks = 0
    /\ order = IdleOrder
    /\ placed = NotCalled
    /\ reads = IdleReads
    /\ collected = NotCollected
    /\ ctlAdapters = <<>>
    /\ ctlCloseLog = <<>>
    /\ rawConfig = IdleRawConfig
    /\ loaded = NotLoaded
    /\ offsetCfg = IdleOffsetConfig
    /\ offsets = NoOffsets
    /\ waitCfg = IdleWaitConfig
    /\ wait = NoWait
    /\ hedgeCfg = IdleHedgeConfig
    /\ hedge = NoHedge
    /\ closeIn = IdleCloseInput
    /\ closeOut = NotSized
    /\ ioCfg = IdleIoConfig
    /\ io = NotRead
    /\ book = NoBook
    /\ closeRun = NoCloseRun
    /\ objects = NoObjects

NextBook ==
    \/ BookCall
    \/ BookFill
    \/ BookPoll
    \/ BookCheckOrder
    \/ BookCheckTimer
SpecBook == InitSpecBook /\ [][NextBook]_vars

InitSpecCloseRun ==
    /\ environ = <<"1">>
    /\ gateLive = FALSE
    /\ gateResult = "none"
    /\ gateEnv = Unset
    /\ engCfg = IdleConfig
    /\ snapshot = EmptySnapshot
    /\ decision = EmptyDecision
    /\ firstSnapshot = EmptySnapshot
    /\ firstDecision = EmptyDecision
    /\ engCalls = 0
    /\ argLive = TRUE
    /\ ctlPc = "start"
    /\ ctlExit = -1
    /\ ctlRunning = FALSE
    /\ ctlStopAsked = FALSE
    /\ ctlCycle = 0
    /\ ctlInst = 1
    /\ ctlPending = <<>>
    /\ ctlPlaced = 0
    /\ entryCfg = EntryIdleConfig
    /\ entryPc = "start"
    /\ entryExit = ""
    /\ shutdown_event = FALSE
    /\ venue = EntryIdleVenue
    /\ chunk = NoChunk
    /\ total_filled = 0
    /\ entryPlaced = FALSE
    /\ entryChunks = 0
    /\ order = IdleOrder
    /\ placed = NotCalled
    /\ reads = IdleReads
    /\ collected = NotCollected
    /\ ctlAdapters = <<>>
    /\ ctlCloseLog = <<>>
    /\ rawConfig = IdleRawConfig
    /\ loaded = NotLoaded
    /\ offsetCfg = IdleOffsetConfig
    /\ offsets = NoOffsets
    /\ waitCfg = IdleWaitConfig
    /\ wait = NoWait
    /\ hedgeCfg = IdleHedgeConfig
    /\ hedge = NoHedge
    /\ closeIn = IdleCloseInput
    /\ closeOut = NotSized
    /\ ioCfg = IdleIoConfig
    /\ io = NotRead
    /\ book = NoBook
    /\ closeRun \in CloseRuns
    /\ objects = NoObjects

NextCloseRun ==
    \/ CloseRunStart
    \/ CloseRunLoopHead
    \/ CloseRunPlace
    \/ CloseRunFill
    \/ CloseRunWait
    \/ CloseRunHedge
SpecCloseRun == InitSpecCloseRun /\ [][NextCloseRun]_vars

\* every venue call returns and every accepted order eventually fills
CloseRunFairness ==
    /\ WF_vars(CloseRunStart)
    /\ WF_vars(CloseRunLoopHead)
    /\ WF_vars(CloseRunPlace)
    /\ WF_vars(CloseRunFill)
    /\ WF_vars(CloseRunWait)
    /\ WF_vars(CloseRunHedge)
SpecCloseRunLive == SpecCloseRun /\ CloseRunFairness

----------------------------------------------------------------------------
(* Properties of the safety gate (SpecGate) *)

\* C3: require_live_confirmation returns False whenever live_flag is False,
\* whatever the environment holds; returns True when live_flag is True and
\* CONFIRM_LIVE_TRADING is "1"; raises LiveTradingSafetyError when live_flag
\* is True and the variable is absent; and leaves the environment as it
\* found it.
C3_GateContract ==
    gateResult # "none" =>
        /\ (~gateLive => gateResult = "false")
        /\ (gateLive /\ gateEnv = <<"1">> => gateResult = "true")
        /\ (gateLive /\ gateEnv = Unset => gateResult = "raise")
        /\ environ = gateEnv

C3_Witness == gateLive /\ gateEnv = Unset /\ gateResult = "raise"

----------------------------------------------------------------------------
(* Properties of one analyze call (SpecEngine) *)

Analyzed == engCalls = 1
PosE == snapshot.extended_state.position
PosN == snapshot.nado_state.position
RefE == snapshot.extended_state.reference_price
RefN == snapshot.nado_state.reference_price
NameE == snapshot.extended_state.exchange
NameN == snapshot.nado_state.exchange
PositionOn(name) == IF name = NameE THEN PosE ELSE PosN

\* C4: within_tolerance is true exactly when |net_delta| <= max_delta_base
\* and |net_delta_usd| <= max_delta_usd, and the action list is empty
\* whenever within_tolerance is true or the mode is monitor.
C4_ToleranceVerdict ==
    Analyzed =>
        /\ decision.within_tolerance <=>
              (/\ Abs(PosE + PosN) <= engCfg.max_delta_base
               /\ Abs(net_delta_usd(snapshot)) <= engCfg.max_delta_usd)
        /\ (decision.within_tolerance \/ engCfg.mode = "monitor"
               => decision.actions = <<>>)

C4_Witness ==
    /\ Analyzed
    /\ engCfg.mode = "monitor"
    /\ ~decision.within_tolerance
    /\ Abs(PosE + PosN) > engCfg.max_order_size_base
    /\ RefE > 0 /\ RefN > 0
    /\ decision.actions = <<>>

\* C5: an emitted action sells on the venue with the larger signed position
\* when net_delta > 0, buys on the venue with the smaller signed position
\* when net_delta < 0, and goes to the first venue of the snapshot on a tie.
C5_VenueAndSide ==
    Analyzed /\ decision.actions # <<>> =>
        LET a == decision.actions[1]
        IN  /\ a.exchange \in {NameE, NameN}
            /\ PosE + PosN > 0 =>
                  /\ a.side = "sell"
                  /\ PositionOn(a.exchange) = Max2(PosE, PosN)
            /\ PosE + PosN < 0 =>
                  /\ a.side = "buy"
                  /\ PositionOn(a.exchange) = Min2(PosE, PosN)
            /\ PosE + PosN # 0
            /\ PosE = PosN => a.exchange = NameE

C5_Witness ==
    /\ Analyzed
    /\ decision.actions # <<>>
    /\ PosE = PosN
    /\ PosE > 0
    /\ decision.actions[1].exchange = NameE
    /\ decision.actions[1].side = "sell"

\* the example of the specification: 0.8 and 0.1 at 2000.00 with an order
\* cap of 0.2 and an offset of 0.5 % give one sell of 0.2 at 1990.00 on the
\* venue holding 0.8 (lots of 0.1, prices in cents)
ExampleConfig ==
    [mode |-> "auto", max_delta_base |-> 0, max_delta_usd |-> 1000,
     max_order_size_base |-> 2, max_position_base |-> 10,
     min_balance_usd |-> 0, price_offset_bp |-> 50]
ExampleSnapshot ==
    DeltaSnapshot(ExchangeState("extended", 100000, 8, 200000),
                  ExchangeState("nado", 100000, 1, 200000))
ExampleHolds ==
    Analyze(ExampleConfig, ExampleSnapshot).actions =
        <<RebalanceAction("extended", "sell", 2, 199000)>>

\* C6: a non-empty action list holds exactly one action, of amount
\* min(|net_delta|, max_order_size_base) > 0, priced at the mid reference
\* price minus (sell) or plus (buy) mid * price_offset_pct / 100.
C6_AmountAndPrice ==
    /\ ExampleHolds
    /\ Analyzed /\ decision.actions # <<>> =>
        LET a == decision.actions[1]
            mid == mid_reference_price(snapshot)
        IN  /\ Len(decision.actions) = 1
            /\ a.amount = Min2(Abs(PosE + PosN), engCfg.max_order_size_base)
            /\ a.amount > 0
            /\ a.side = "sell" => a.price * 10000 = mid * (10000 - engCfg.price_offset_bp)
            /\ a.side = "buy" => a.price * 10000 = mid * (10000 + engCfg.price_offset_bp)

C6_Witness ==
    /\ Analyzed
    /\ decision.actions # <<>>
    /\ decision.actions[1].amount = engCfg.max_order_size_base
    /\ decision.actions[1].amount < Abs(PosE + PosN)
    /\ decision.actions[1].side = "buy"
    /\ decision.actions[1].price > mid_reference_price(snapshot)

\* the venue position after the proposed action is executed in full
PositionAfter(a) ==
    IF a.side = "sell" THEN PositionOn(a.exchange) - a.amount
    ELSE PositionOn(a.exchange) + a.amount

Proposed == ProposedActions(engCfg, snapshot, net_delta(snapshot), mid_reference_price(snapshot))

\* C7: when executing the generated action would put the venue's absolute
\* position above max_position_base, analyze returns no action and still
\* reports within_tolerance = false.
C7_CapDropsAction ==
    (/\ Analyzed
     /\ engCfg.mode = "auto"
     /\ ~decision.within_tolerance
     /\ Proposed # <<>>
     /\ Abs(PositionAfter(Proposed[1])) > engCfg.max_position_base)
        => decision.actions = <<>>

C7_Witness ==
    /\ Analyzed
    /\ engCfg.mode = "auto"
    /\ ~decision.within_tolerance
    /\ Proposed # <<>>
    /\ Abs(PositionAfter(Proposed[1])) > engCfg.max_position_base
    /\ decision.actions = <<>>

ExpectedWarnings ==
    (IF RefE <= 0 THEN {Warn("ref_price", NameE)} ELSE {})
    \cup (IF RefN <= 0 THEN {Warn("ref_price", NameN)} ELSE {})
    \cup (IF snapshot.extended_state.available < engCfg.min_balance_usd
          THEN {Warn("balance", NameE)} ELSE {})
    \cup (IF snapshot.nado_state.available < engCfg.min_balance_usd
          THEN {Warn("balance", NameN)} ELSE {})
    \cup (IF RefE > 0 /\ RefN > 0 /\ Abs(RefE - RefN) * 100 > Min2(RefE, RefN)
          THEN {Warn("spread", "both")} ELSE {})

\* C9: analyze warns once for each venue whose reference price is <= 0, once
\* for each venue whose available balance is below min_balance_usd, and once
\* when both prices are positive and differ by more than 1 %; in every mode
\* and whatever the tolerance verdict; and the warnings leave the verdict and
\* the action list as they were.
C9_Warnings ==
    Analyzed =>
        /\ {decision.warnings[i] : i \in 1..Len(decision.warnings)} = ExpectedWarnings
        /\ Len(decision.warnings) = Cardinality(ExpectedWarnings)
        /\ decision.within_tolerance = NewDecision(engCfg, snapshot).within_tolerance
        /\ CheckSafety(engCfg, snapshot, decision).actions = decision.actions

C9_Witness ==
    /\ Analyzed
    /\ decision.within_tolerance
    /\ engCfg.mode = "auto"
    /\ Len(decision.warnings) = 3
    /\ Warn("spread", "both") \in ExpectedWarnings

----------------------------------------------------------------------------
(* Properties of repeated analyze calls (SpecEngineCalls) *)

\* calls that were given snapshots holding the same return decisions holding
\* the same, whatever calls were made in between
SameSnapshotSameDecision ==
    \A i, j \in 1..Len(objects.calls) :
        objects.calls[i].given = objects.calls[j].given =>
            objects.calls[i].returned = objects.calls[j].returned

\* a decision, once returned, is not changed by a later call
ReturnedDecisionsKept ==
    \A i \in 1..Len(objects.calls) :
        DecisionValue(objects, objects.calls[i].decision) = objects.calls[i].returned

\* every snapshot handed to a call still holds what its caller passed
SnapshotsKept ==
    \A i \in 1..Len(objects.calls) :
        objects.snapshots[objects.calls[i].snapshot] = objects.calls[i].given

\* the engine's attributes are those __init__ set from the configuration
EngineKept ==
    /\ objects.engine = NewEngine(engCfg).engine
    /\ objects'.engine = objects.engine

\* C8: analyze is deterministic and stateless: two calls with the identical
\* snapshot, in any interleaving with other analyze calls on the same engine,
\* yield identical decisions, and a call modifies neither the snapshot nor
\* the engine or its configuration.
C8_Deterministic ==
    /\ [](SameSnapshotSameDecision /\ ReturnedDecisionsKept /\ SnapshotsKept)
    /\ [][EngineKept]_vars

\* the first and the last call were handed the same snapshot object, with a
\* call on another snapshot in between, and returned two decision objects
\* that hold the same warnings and the same action
C8_Witness ==
    /\ Len(objects.calls) = MaxCalls
    /\ objects.calls[1].snapshot = objects.calls[MaxCalls].snapshot
    /\ objects.calls[2].given # objects.calls[1].given
    /\ objects.calls[1].decision # objects.calls[MaxCalls].decision
    /\ objects.calls[1].returned = objects.calls[MaxCalls].returned
    /\ decision.warnings # <<>>
    /\ decision.actions # <<>>

----------------------------------------------------------------------------
(* Properties of the controller entry point (SpecController) *)

LiveConfirmed == argLive /\ Strip(EnvGet(environ)) = <<"1">>

\* C1: in a run of python -m controller an adapter's place_limit_order is
\* invoked only if --live was passed and CONFIRM_LIVE_TRADING=1 is present;
\* a run in auto mode without --live places no order.
C1_OrdersOnlyWhenConfirmed == ctlPlaced > 0 => LiveConfirmed

----------------------------------------------------------------------------
(* Properties of the hedged entry/exit protocol (SpecEntry) *)

\* C2: enter_delta_neutral places no order on either venue unless both the
\* --live flag and the environment confirmation CONFIRM_LIVE_TRADING=1 are
\* present.
C2_EntryOrdersOnlyWhenConfirmed == entryPlaced => LiveConfirmed

\* the chunk whose locals are in chunk placed a hedge order and has ended
HedgedChunkEnded ==
    /\ chunk.hedge_orders > 0
    /\ entryPc \in {"loop_head", "finish", "cleanup", "exited"}

\* C10: when a chunk whose hedge phase ran ends, either the confirmed
\* hedged_amount equals the filled primary amount, or an unwind order on the
\* primary venue, on the side opposite to the primary leg, for exactly
\* filled - hedged_amount was attempted.
C10_HedgedOrUnwound ==
    HedgedChunkEnded =>
        \/ chunk.hedged_amount = chunk.filled
        \/ chunk.unwind = <<OppositeSide(chunk.side_primary),
                            chunk.filled - chunk.hedged_amount>>

\* movement of a position in the direction of side since start_pos
Movement(side, start_pos, pos) == IF side = "buy" THEN pos - start_pos ELSE start_pos - pos

Clamp(x, lo, hi) == IF x < lo THEN lo ELSE IF x > hi THEN hi ELSE x

\* wait_fill returns (or turns to its shutdown cancel) with the clamped
\* primary movement
FilledIsClamped ==
    (entryPc = "wait_fill" /\ entryPc' \in {"hedge", "wait_cancel"}) =>
        chunk'.filled = Clamp(Movement(chunk.side_primary, chunk.primary_pos_curr,
                                       venue.primary_pos), 0, chunk.chunk)

\* a confirmation read (a step of the script, not of the venues or the
\* operator) sets the hedged amount to the clamped secondary movement
HedgedIsClamped ==
    (/\ entryPc \in {"confirm", "retry_confirm"}
     /\ venue' = venue
     /\ shutdown_event' = shutdown_event) =>
        chunk'.hedged_amount =
            Clamp(Movement(OppositeSide(chunk.side_primary), chunk.secondary_pos_before,
                           venue.secondary_seen), 0, chunk.filled)

AmountsOrdered ==
    /\ 0 <= chunk.hedged_amount
    /\ chunk.hedged_amount <= chunk.filled
    /\ chunk.filled <= chunk.chunk

\* C11: in every state of a chunk 0 <= hedged_amount <= filled <= chunk size,
\* whatever positions the venues report: the filled amount wait_fill returns
\* is the primary movement in the chunk direction since chunk start clamped
\* to [0, chunk], and every confirmation read sets the hedged amount to the
\* secondary movement in the hedge direction since hedge start clamped to
\* [0, filled].
C11_AmountsOrdered ==
    []AmountsOrdered /\ [][FilledIsClamped]_vars /\ [][HedgedIsClamped]_vars

\* a confirmation read has just seen the secondary venue move by more than
\* the filled amount, and a fill poll saw the primary move by less than asked
C11_Witness ==
    /\ entryPc = "retry"
    /\ chunk.filled > 0
    /\ chunk.filled < chunk.chunk
    /\ chunk.hedged_amount = chunk.filled
    /\ Movement(OppositeSide(chunk.side_primary), chunk.secondary_pos_before,
                venue.secondary_seen) > chunk.filled

\* a hedge order goes to the secondary venue in this step
HedgePlaced == chunk'.hedge_orders > chunk.hedge_orders

HedgeAfterPrimary == HedgePlaced => chunk.primary_placed

\* a residual retry order or an unwind order is placed in this step
RetryOrUnwindPlaced ==
    \/ entryPc = "retry" /\ HedgePlaced
    \/ chunk.unwind = <<>> /\ chunk'.unwind # <<>>

ConfirmBeforeRetryOrUnwind == RetryOrUnwindPlaced => chunk.confirm_read

\* C12: within one chunk the primary maker placement completes before any
\* hedge order is placed on the secondary venue, and at least one
\* confirmation read of the secondary position completes before any residual
\* retry order or unwind order is placed.
C12_EventsOrdered ==
    [][HedgeAfterPrimary]_vars /\ [][ConfirmBeforeRetryOrUnwind]_vars

\* the second half of C12 alone
C12_ConfirmFirst == [][ConfirmBeforeRetryOrUnwind]_vars

\* an open run that ended on its own: no unwind, no fatal exit, no shutdown
OpenRunEnded == entryPc = "exited" /\ entryExit = "done" /\ ~shutdown_event

\* C13: starting flat on both venues, an open run with direction long and
\* target size S that ends without unwind and without shutdown leaves the
\* primary position at +S and the secondary position at -S.
C13_OpenEndsNeutral ==
    OpenRunEnded =>
        /\ venue.primary_pos = entryCfg.target_size
        /\ venue.secondary_pos = -entryCfg.target_size

----------------------------------------------------------------------------
(* Properties of the adapters (SpecAdapters) *)

\* C14: for every adapter and every input (unknown instrument, non-positive
\* price or amount, uninitialized adapter) place_limit_order never raises:
\* every failure comes back as a result with success false and an error text.
C14_PlaceNeverRaises ==
    placed # NotCalled =>
        /\ ~placed.raised
        /\ ~placed.success => placed.error # ""

----------------------------------------------------------------------------
(* Properties of state collection (SpecCollect) *)

ReadFields == {"balance", "position", "open_orders", "reference_price"}

\* the field of a collected state is the value read, or the default of a
\* fresh ExchangeState when the read failed
FieldKept(results, st, f) ==
    IF results[f].ok THEN st[f] = results[f].value
    ELSE st[f] = DefaultState(st.exchange)[f]

\* C15: a failure of any subset of the four reads of a venue neither cancels
\* the other reads nor aborts the cycle: each failed field keeps its
\* zero/empty default, each successful field holds the value read, and the
\* decision engine is still called for the instrument.
C15_FailedReadsIsolated ==
    collected # NotCollected =>
        /\ \A f \in ReadFields :
              /\ FieldKept(reads.primary, collected[1], f)
              /\ FieldKept(reads.secondary, collected[2], f)
        /\ engCalls = 1
        /\ snapshot = DeltaSnapshot(EngineView(collected[1]), EngineView(collected[2]))
        /\ decision = Analyze(engCfg, snapshot)

\* one read of a venue failed, the other three succeeded with values that are
\* not the defaults, and the engine has run
C15_Witness ==
    /\ collected # NotCollected
    /\ ~reads.primary.position.ok
    /\ reads.primary.balance = ReadValue(100)
    /\ reads.primary.open_orders = ReadValue(<<"order">>)
    /\ reads.primary.reference_price = ReadValue(40000)
    /\ ~reads.secondary.reference_price.ok
    /\ reads.secondary.position = ReadValue(1)
    /\ engCalls = 1

----------------------------------------------------------------------------
(* Properties of the controller cycle (SpecController) *)

\* what _run_cycle requires before it executes the decision of an instrument
ExecutionAllowed ==
    /\ engCfg.mode = "auto"
    /\ decision.actions # <<>>
    /\ snapshot.extended_state.reference_price > 0
    /\ snapshot.nado_state.reference_price > 0

\* a place_limit_order call is made in this step
CtlOrderPlaced == ctlPlaced' > ctlPlaced

\* this step collects and analyzes the instrument the cycle is at
CtlCollected == ctlPc = "collect" /\ ctlStopAsked' = ctlStopAsked

\* when execution is not allowed, the cycle goes to the next instrument (or
\* to the sleep after the last one) without placing an order
SkippedGoesOn ==
    (CtlCollected /\ ~ExecutionAllowed') =>
        /\ ~CtlOrderPlaced
        /\ ctlPending' = <<>>
        /\ IF ctlInst < NumInstruments
           THEN ctlPc' = "collect" /\ ctlInst' = ctlInst + 1
           ELSE ctlPc' = "sleep"

\* C16: in any controller cycle an order is placed for an instrument only if
\* the mode is auto, the decision for that instrument has at least one action
\* and both venues reported a strictly positive reference price in that
\* cycle; otherwise execution is skipped for that instrument and the
\* remaining instruments are still processed.
C16_ExecuteOnlyWhenAllowed ==
    [][CtlOrderPlaced => ExecutionAllowed]_vars /\ [][SkippedGoesOn]_vars

\* an order was placed for the first instrument, and the second one was
\* skipped in auto mode because a venue reported no reference price
C16_Witness ==
    /\ ctlPc = "sleep"
    /\ ctlPlaced > 0
    /\ engCfg.mode = "auto"
    /\ decision.actions # <<>>
    /\ snapshot.nado_state.reference_price <= 0

\* stop() was called while run() was cycling
StoppedWhileCycling ==
    /\ ctlPc \in {"loop", "collect", "execute", "sleep"}
    /\ ctlStopAsked
    /\ ~ctlRunning

NoCycleAfterStop == StoppedWhileCycling => ctlCycle' = ctlCycle

\* run() has returned and the close() of its finally clause was attempted on
\* every adapter
ClosedAll ==
    /\ ctlPc \in {"main_finally", "exited"}
    /\ Len(ctlCloseLog) >= Len(ctlAdapters)
    /\ \A i \in 1..Len(ctlAdapters) : ctlCloseLog[i].adapter = ctlAdapters[i]

\* C17: if stop() is called while run() is cycling and every adapter call
\* returns, the loop starts no further cycle after the current cycle and
\* sleep, run() eventually returns, and close() is then attempted on every
\* initialized adapter even when closing one of them raises.
C17_StopEndsRun ==
    /\ [][NoCycleAfterStop]_vars
    /\ StoppedWhileCycling ~> ClosedAll

\* a run stopped during a cycle has ended; in the pass of run() the close()
\* of the first adapter raised and the second adapter was closed all the
\* same, and main has made its own pass after it
C17_Witness ==
    /\ ctlPc = "exited"
    /\ ctlStopAsked
    /\ ctlCycle >= 1
    /\ Len(ctlCloseLog) = 4
    /\ ctlCloseLog[1].raised
    /\ ctlCloseLog[2].adapter = "variational"

NoOrderAfterStop == StoppedWhileCycling => ~CtlOrderPlaced

\* C18: the stop flag is honoured at every await point of a cycle: once
\* stop() has been requested, the controller starts no new order placement,
\* in that cycle or a later one, before the adapters are closed.
C18_NoOrderAfterStop == [][NoOrderAfterStop]_vars

----------------------------------------------------------------------------
(* Properties of configuration loading (SpecConfig) *)

\* the pair a raw config selects
RawPrimary == rawConfig.primary_exchange
RawSecondary ==
    IF rawConfig.secondary_exchange = "" THEN DefaultSecondary(RawPrimary)
    ELSE rawConfig.secondary_exchange
RawActive == {RawPrimary, RawSecondary}

\* what the claim requires of a config that load_config returns
ConfigAcceptable ==
    /\ rawConfig.mode \in {"monitor", "auto"}
    /\ rawConfig.instruments # <<>>
    /\ \A i, j \in 1..Len(rawConfig.instruments) :
          i # j => rawConfig.instruments[i].symbol # rawConfig.instruments[j].symbol
    /\ RawPrimary # RawSecondary
    /\ \A i \in 1..Len(rawConfig.instruments) :
          RawActive \subseteq rawConfig.instruments[i].mappings
    /\ RawActive \subseteq rawConfig.env_files
    /\ rawConfig.risk.max_delta_base >= 0
    /\ rawConfig.risk.max_delta_usd >= 0
    /\ rawConfig.risk.min_balance_usd >= 0
    /\ rawConfig.risk.max_order_size_base > 0
    /\ rawConfig.risk.max_position_base > 0

\* C19: load_config returns a ControllerConfig only if the mode is monitor
\* or auto, the instrument list is non-empty with unique symbols, primary and
\* secondary exchanges differ, every instrument carries the mapping of each
\* exchange of the active pair, the env files of the active pair exist, and
\* the risk limits are in range; otherwise it raises and the controller
\* exits with code 1 before any adapter is built or any order placed.
C19_ConfigValidated ==
    loaded # NotLoaded =>
        /\ loaded.returned => ConfigAcceptable
        /\ ~loaded.returned =>
              /\ ctlPc = "exited" /\ ctlExit = 1
              /\ ctlAdapters = <<>> /\ ctlPlaced = 0

\* the part of C19 that does not concern the env file of the variational venue
C19_ExceptVariationalEnv ==
    (loaded # NotLoaded /\ ("variational" \in rawConfig.env_files)) =>
        /\ loaded.returned => ConfigAcceptable
        /\ ~loaded.returned =>
              /\ ctlPc = "exited" /\ ctlExit = 1
              /\ ctlAdapters = <<>> /\ ctlPlaced = 0

----------------------------------------------------------------------------
(* Properties of the first hedge order (SpecEntry) *)

\* a hedge order was placed for the current chunk
ChunkHedged == chunk.hedge_orders > 0

\* the first hedge order mirrors what wait_fill returned
FirstHedgeMirrorsFill ==
    ChunkHedged =>
        /\ chunk.hedge_side = OppositeSide(chunk.side_primary)
        /\ chunk.hedge_amount = chunk.filled
        /\ chunk.filled < chunk.chunk => chunk.hedge_amount < chunk.chunk

\* C20: a hedge order is placed on the secondary venue only after a non-zero
\* primary fill was observed for the current chunk; the first hedge order is
\* on the side opposite to the primary leg and its amount is the filled
\* amount wait_fill returned, never zero and never the full chunk when only
\* part of it filled.
C20_HedgeOnlyAfterFill ==
    /\ ChunkHedged => chunk.filled > 0 /\ chunk.hedge_amount > 0
    /\ FirstHedgeMirrorsFill

----------------------------------------------------------------------------
(* Properties of the unwind (SpecEntry) *)

\* the step that places the unwind order on the primary venue
UnwindPlaced == entryPc = "decide" /\ chunk.unwind = <<>> /\ chunk'.unwind # <<>>

\* the run is over or on its way out through the finally block
EntryLeaving == entryPc \in {"cleanup", "exited"}

UnwindStopsOnlyOnFailure ==
    UnwindPlaced =>
        IF entryExit' = "unwind_failed" THEN EntryLeaving'
        ELSE entryPc' = "loop_head"

\* C21: a hedge failure stops the run outright only when the unwind order
\* itself fails; when the unwind order is accepted the protocol skips the
\* chunk and goes on with the next chunk instead of terminating the process.
C21_UnwindAcceptedContinues == [][UnwindStopsOnlyOnFailure]_vars

\* what the primary venue moved, in the chunk's direction, since the chunk began
PrimaryMovement ==
    IF chunk.side_primary = "buy" THEN venue.primary_pos - chunk.primary_pos_curr
    ELSE chunk.primary_pos_curr - venue.primary_pos

\* the run ended after an unwind order that the primary venue accepted
EndedUnwound == entryPc = "exited" /\ entryExit = "unwound"

\* C22: when the secondary leg could not be fully hedged and the unwind order
\* on the primary venue is accepted, the unhedged exposure of the chunk is
\* removed before the protocol leaves: once the run has ended, the primary
\* movement since the start of the chunk is the confirmed hedged amount (the
\* pre-chunk position when nothing was hedged).  The run's last state is
\* final, so an exposure left there is never removed.
C22_UnwindTakesEffect == EndedUnwound => PrimaryMovement = chunk.hedged_amount

----------------------------------------------------------------------------
(* Properties of a shutdown during wait_fill (SpecEntry) *)

\* wait_fill, polled under shutdown with the chunk not yet filled, has run
\* its cancel and control has left it
ShutdownCancelDone == entryPc = "wait_cancel" /\ entryPc' # "wait_cancel"

\* a chunk begins
ChunkStarted == entryChunks' > entryChunks

ShutdownReturnsFill ==
    /\ (ShutdownCancelDone /\ chunk.filled > 0) =>
          entryPc' = "hedge" /\ chunk'.filled = chunk.filled
    /\ ChunkStarted => ~shutdown_event

\* C23: when shutdown is requested while a chunk waits for its fill,
\* wait_fill cancels all open primary orders at its next poll and returns the
\* amount filled so far; an amount filled so far that is > 0 is still hedged,
\* and no new chunk is started afterwards.
C23_ShutdownDuringWait == [][ShutdownReturnsFill]_vars

----------------------------------------------------------------------------
(* Properties of the offsets loop (SpecOffsets) *)

\* C24: during the primary placement of a chunk, a placement failure that is
\* not a maker-only crosses-the-book rejection aborts the chunk: after such
\* a failure no further primary placement attempt is made for that chunk.
C24_OtherFailureAborts ==
    \A i \in 1..Len(offsets.attempts) :
        offsets.attempts[i].res = "other" => i = Len(offsets.attempts)

\* what C25 says besides the order of the offsets: the extra attempts are at
\* most post_only_fallback_retries and no appended offset exceeds
\* post_only_fallback_max_pct
FallbackBounded ==
    /\ Len(offsets.appended) <= FallbackRetries(offsetCfg)
    /\ offsets.extra_fallbacks = Len(offsets.appended)
    /\ \A i \in 1..Len(offsets.appended) :
          offsets.appended[i] <= FallbackMaxPct(offsetCfg)

\* every attempt of the loop so far was rejected for crossing the book
OnlyCrossRejections ==
    \A i \in 1..Len(offsets.attempts) :
        offsets.attempts[i].res \in {"post_only_cross", "ok"}

\* C25: within one chunk's placement phase the offsets tried after
\* crosses-the-book rejections escalate: every attempt uses an offset
\* strictly larger than the attempt before it, the extra attempts are at most
\* post_only_fallback_retries, and no appended offset exceeds
\* post_only_fallback_max_pct.
C25_OffsetsEscalate ==
    /\ OnlyCrossRejections =>
          \A i \in 1..(Len(offsets.attempts) - 1) :
              offsets.attempts[i + 1].off > offsets.attempts[i].off
    /\ FallbackBounded

----------------------------------------------------------------------------
(* Properties of the reprice timer of wait_fill (SpecWait) *)

\* the iteration just made cancelled and re-placed the order on the timer
Repriced == wait'.did.repriced

\* the order as it stood when that timer check measured its distance: the
\* missing-order branch of the same iteration may have placed it anew
PlacedAnewThisIteration == wait'.did.dist_pct # DistPct(wait.placed_price, wait'.did.dist_pct[2])

RepriceOnlyWhenMovingAway ==
    Repriced =>
        /\ wait'.did.timer_check
        /\ OverThreshold(wait'.did.dist_pct, waitCfg.reprice_threshold_pct)
        /\ ~PlacedAnewThisIteration
        /\ wait.measured # NoDist
        /\ DistGreater(wait'.did.dist_pct, wait.measured)
        /\ wait'.did.amount = waitCfg.target_delta - wait'.filled

----------------------------------------------------------------------------
(* Properties of the hedge retries (SpecHedge) *)

\* the residual retries placed so far, in order
RetryOrders == SelectSeq(hedge.orders, LAMBDA o : o.kind = "retry")

\* C27: the partial-hedge retry loop is bounded: a residual retry is placed
\* only while the latest hedge placement was acknowledged and the residual
\* is above epsilon, at most hedge_retry_count retries are placed per chunk,
\* each retry is for the current residual with a slippage of at most
\* hedge_retry_max_slippage_pct, and the loop stops at the first rejected
\* retry.
C27_RetriesBounded ==
    /\ Len(RetryOrders) <= HedgeRetryCount(hedgeCfg)
    /\ hedge.retry_idx <= HedgeRetryCount(hedgeCfg)
    /\ \A i \in 1..Len(RetryOrders) :
          /\ RetryOrders[i].acked_before
          /\ RetryOrders[i].residual_before > 0
          /\ RetryOrders[i].amount = RetryOrders[i].residual_before
          /\ RetryOrders[i].slip <= HedgeRetryMaxSlippagePct(hedgeCfg)
          /\ ~RetryOrders[i].success => i = Len(RetryOrders) /\ hedge.pc = "decide"

\* two retries were placed, the second one rejected
C27_Witness ==
    /\ Len(RetryOrders) = 2
    /\ RetryOrders[1].success
    /\ ~RetryOrders[2].success

\* C28: across the hedge attempts of one chunk the slippage allowance is
\* increasing: no residual retry uses a slippage lower than the hedge attempt
\* before it (the first attempt and its doubled repeat included), whatever
\* slippage_pct, ioc_min_cross_pct, hedge_retry_slippage_mult and
\* hedge_retry_max_slippage_pct are configured.
C28_SlippageNeverLower ==
    \A i \in 2..Len(hedge.orders) :
        hedge.orders[i].kind = "retry" => hedge.orders[i].slip >= hedge.orders[i - 1].slip

----------------------------------------------------------------------------
(* Properties of the cumulative amount in open mode with a target (SpecEntry) *)

OpenWithTarget ==
    /\ entryCfg.action = "open" /\ entryCfg.has_target
    /\ entryPc \notin {"start", "setup"}

\* control is inside a pass of the chunk loop, past its head
InChunkPass ==
    entryPc \in {"place", "wait_fill", "wait_cancel", "wait_reprice", "hedge", "confirm",
                 "retry", "retry_confirm", "decide"}

\* a chunk size has been chosen for the pass
ChunkSized ==
    entryPc \in {"wait_fill", "wait_cancel", "wait_reprice", "hedge", "confirm", "retry",
                 "retry_confirm", "decide"}

CumulativeWithinTarget == OpenWithTarget => total_filled <= entryCfg.target_size

ChunkWithinRemaining ==
    (OpenWithTarget /\ ChunkSized) =>
        chunk.chunk <= Min2(entryCfg.size, entryCfg.target_size - total_filled)

GrowsOnlyByHedgedFills ==
    (OpenWithTarget /\ total_filled' # total_filled) =>
        /\ total_filled' = total_filled + chunk.filled
        /\ chunk.ioc_success
        /\ chunk.hedged_amount >= chunk.filled

EndsAtTarget ==
    /\ (OpenWithTarget /\ InChunkPass) => total_filled < entryCfg.target_size
    /\ (OpenWithTarget /\ entryPc = "loop_head") =>
          (total_filled < entryCfg.target_size \/ entryChunks = 0)

C29_AllButTheEnd ==
    [][CumulativeWithinTarget' /\ ChunkWithinRemaining' /\ GrowsOnlyByHedgedFills]_vars

\* C29: in open mode with a target size the cumulative filled amount, which
\* starts at the part of the target the primary already holds in the target
\* direction, never exceeds the target; every chunk is at most min(entry
\* size, target - cumulative filled); the cumulative amount grows only by
\* hedged fills; and the chunk loop ends as soon as the cumulative amount has
\* reached the target.
C29_CumulativeAndTarget ==
    [][/\ CumulativeWithinTarget' /\ ChunkWithinRemaining' /\ GrowsOnlyByHedgedFills
       /\ EndsAtTarget']_vars

----------------------------------------------------------------------------
(* Properties of the close sizing (SpecClose) *)

\* the position still to close and the smallest order both venues take
RemainingBasis ==
    IF closeIn.primary_pos_curr # 0 THEN Abs(closeIn.primary_pos_curr)
    ELSE Abs(closeIn.secondary_pos_curr)
LowerRef == Min2(closeIn.ref_primary, closeIn.ref_secondary)
MinimumCloseAmount == closeIn.close_min_notional \div LowerRef

\* C30: in close mode every primary chunk that is placed is at least the
\* minimum close amount (close_min_notional divided by the lower of the two
\* reference prices) and either clears the entire remaining position basis
\* or leaves a remainder of at least that minimum.
C30_NoDustLeft ==
    closeOut.outcome = "place" =>
        /\ LowerRef > 0
        /\ closeOut.chunk >= MinimumCloseAmount
        /\ closeOut.chunk <= RemainingBasis
        /\ \/ closeOut.chunk = RemainingBasis
           \/ RemainingBasis - closeOut.chunk >= MinimumCloseAmount

\* a chunk was enlarged to the whole basis because the remainder would have
\* been below the minimum
C30_Witness ==
    /\ closeOut.outcome = "place"
    /\ closeOut.chunk = RemainingBasis
    /\ closeOut.chunk > closeIn.size
    /\ closeOut.chunk > MinimumCloseAmount

----------------------------------------------------------------------------
(* Properties of the position-cap validation and of the emitted actions (SpecEngine) *)

\* the generated action was dropped by the validation
ProposedDropped ==
    /\ Analyzed
    /\ engCfg.mode = "auto"
    /\ ~decision.within_tolerance
    /\ Proposed # <<>>
    /\ decision.actions = <<>>

\* C37: the position-cap validation drops a generated action only if
\* executing it in full would leave the target venue's absolute position
\* above max_position_base; an action that reduces the venue's absolute
\* position to a value within the cap is never dropped.
C37_DropsOnlyAboveCap ==
    ProposedDropped => Abs(PositionAfter(Proposed[1])) > engCfg.max_position_base

\* the net delta after the emitted action is executed in full
DeltaAfter(a) ==
    IF a.side = "sell" THEN PosE + PosN - a.amount ELSE PosE + PosN + a.amount

\* C38: every action emitted by analyze is risk-reducing: executing it in
\* full does not increase the absolute position of the venue it targets, and
\* it changes the net delta by exactly its amount toward zero without
\* changing the sign of the net delta.
C38_ActionsReduceRisk ==
    Analyzed =>
        \A i \in 1..Len(decision.actions) :
            LET a == decision.actions[i]
            IN  /\ Abs(PositionAfter(a)) <= Abs(PositionOn(a.exchange))
                /\ Abs(DeltaAfter(a)) = Abs(PosE + PosN) - a.amount
                /\ DeltaAfter(a) * (PosE + PosN) >= 0

C38_Witness ==
    /\ Analyzed
    /\ decision.actions # <<>>
    /\ decision.actions[1].side = "sell"
    /\ decision.actions[1].amount = 1
    /\ PosE + PosN = 3
    /\ PositionAfter(decision.actions[1]) = 1

\* C39: for every snapshot net_delta_usd equals net_delta multiplied by
\* mid_reference_price, so the USD tolerance check and the pricing of
\* corrective orders use the same price, also when exactly one venue reports
\* a reference price of zero.
C39_UsdUsesMidPrice ==
    Analyzed =>
        /\ net_delta_usd(snapshot) = net_delta(snapshot) * mid_reference_price(snapshot)
        /\ decision.net_delta_usd = decision.net_delta * mid_reference_price(snapshot)

\* the two prices agree whenever both venues report a positive price or both
\* report zero
C39_ExceptOneZeroPrice ==
    Analyzed /\ ((RefE > 0) <=> (RefN > 0)) =>
        decision.net_delta_usd = decision.net_delta * mid_reference_price(snapshot)

----------------------------------------------------------------------------
(* Properties of one venue read of the core (SpecIo) *)

\* the read ended without its value
ReadGivenUp == io.pc = "done" /\ io.outcome # "value"

\* C31: a transient failure of a venue call in the core (a state read of the
\* controller cycle, a position or price read of wait_fill or of the hedge
\* confirmation) is retried at the failing operation, at most max_retries
\* attempts in all, before the operation is given up; it is never dropped
\* without a retry.
C31_TransientRetried ==
    /\ io.attempts <= Max2(1, ioCfg.max_retries)
    /\ ReadGivenUp /\ ioCfg.max_retries >= 2 => io.attempts >= 2

\* every read of the core is attempted exactly once
C31_SingleAttempt == io.pc = "done" => io.attempts = 1

----------------------------------------------------------------------------
(* Properties of wait_fill against the order book (SpecBook) *)

\* C34: during a chunk the combined remaining amount of the live primary
\* orders placed by the protocol never exceeds the chunk size minus the
\* amount already filled, under every interleaving of venue fills, lagging
\* open-order lists, cancels and re-placements; hence the primary position
\* never moves by more than the chunk size in one chunk.
C34_LiveOrdersWithinChunk ==
    book.pc # "idle" =>
        /\ SumSeq(book.live) <= book.chunk - Min2(book.chunk, book.moved)
        /\ book.moved <= book.chunk

----------------------------------------------------------------------------
(* Properties of the fills seen by wait_fill (SpecEntry) *)

InWaitFill == entryPc \in {"wait_fill", "wait_cancel", "wait_reprice"}

\* control leaves wait_fill for the hedge phase with the amount it measured
ToHedgePhase == entryPc' = "hedge" /\ chunk'.filled = chunk.filled

\* a step that leaves wait_fill after it measured a fill goes to the hedge phase
FillReachesHedge ==
    (InWaitFill /\ ~InWaitFill' /\ chunk.filled > 0) => ToHedgePhase

\* C32: no primary fill is dropped: whenever the primary position moved in
\* the chunk direction during a chunk, the protocol runs the hedge phase
\* for that movement before it starts another chunk or exits; a failure to
\* clear the primary open orders during a reprice or at shutdown does not
\* make an already filled amount go unhedged and uncounted.
C32_NoFillDropped == [][FillReachesHedge]_vars

----------------------------------------------------------------------------
(* Properties of the hedge orders of a chunk (SpecHedge) *)

RECURSIVE AcknowledgedAmount(_)
\* the total amount of the taker orders the secondary venue acknowledged
AcknowledgedAmount(orders) ==
    IF orders = <<>> THEN 0
    ELSE (IF Head(orders).success THEN Head(orders).amount ELSE 0)
            + AcknowledgedAmount(Tail(orders))

\* C33: for any chunk the total amount of the hedge orders on the secondary
\* venue that were acknowledged as successful never exceeds the filled
\* primary amount, even when the secondary position is reported later than
\* the confirmation window: the protocol never over-hedges a chunk.
C33_NeverOverHedged == AcknowledgedAmount(hedge.orders) <= hedgeCfg.filled

----------------------------------------------------------------------------
(* Properties of the cycle's decision after failed reads (SpecCollect) *)

\* the cycle that collected these states goes on to place an order
CycleExecutes ==
    /\ collected # NotCollected
    /\ ActionsToExecute(engCfg, snapshot, decision) # <<>>

BothPositionsRead == reads.primary.position.ok /\ reads.secondary.position.ok

\* C35: in auto mode the controller places a corrective order for an
\* instrument only in a cycle in which the position reads of both venues
\* succeeded; a decision computed from a position that defaulted to zero
\* after a failed read is never executed.
C35_ExecuteOnlyOnReadPositions == CycleExecutes => BothPositionsRead

----------------------------------------------------------------------------
(* Properties of a stop request made at any time (SpecControllerLive) *)

\* no cycle is started once stop() has been called
NoCycleAfterRequest == ctlStopAsked => ctlCycle' = ctlCycle

\* C36: a stop request is never lost: if stop() is called at any time after
\* the signal handlers are installed, also while initialize() is still
\* running and before run() has started, the controller starts no cycle
\* after the request (beyond one already in progress) and run() eventually
\* returns.
C36_StopNeverLost ==
    /\ [][NoCycleAfterRequest]_vars
    /\ ctlStopAsked ~> ctlPc = "exited"

----------------------------------------------------------------------------
(* Properties of a close-mode run (SpecCloseRunLive) *)

\* the run has left the chunk loop: both venues flat, or an explicit error exit
CloseRunEnded == closeRun.pc \in {"flat", "error"}

\* C40: if every venue call returns and every accepted order eventually
\* fills, a close-mode run eventually terminates (both venues flat, or an
\* explicit error exit) from every starting pair of positions, a flat
\* primary with a non-flat secondary included; the chunk loop does not
\* repeat a failing primary placement forever.
C40_CloseRunTerminates == <>CloseRunEnded

\* from a hedged pair (opposite positions of equal size) the run does end
C40_EndsFromHedgedPair ==
    (closeRun.pc = "idle" /\ closeRun.secondary_pos = -closeRun.primary_pos) ~> CloseRunEnded
====
